---- MODULE Spec2Model ----
(***************************************************************************)
(* A model of shellhost: the syntax-tree builder and pipe linker           *)
(* (shellhost_ast.py), the executor's expansion passes                     *)
(* (shellhost_shell.py), the command registry and argument binder          *)
(* (shellhost_command.py) and the thread-backed job with its stream        *)
(* ownership (shellhost_io.py).                                            *)
(*                                                                         *)
(* Python strings are sequences of one-character strings, so that          *)
(* startswith, split, strip and the regular expressions of the source are  *)
(* computed and not assumed.  Python's None is the record None.            *)
(***************************************************************************)
EXTENDS Integers, Sequences, FiniteSets, TLC

VARIABLES
  tokens,      \* build_ast: the token list read so far (its argument)
  parser,      \* build_ast: the locals i, stack, next_stdin_source, and a raised error
  phase,       \* "build" | "error" | "built" | "linked"
  nodes,       \* the node list build_ast returned, then link_pipes' result
  jobio_count, \* number of JobIO objects link_pipes has allocated
  variables,   \* Shell.variables: the variable table
  history,     \* the lines Shell.open has read, oldest first
  dispatched,  \* the jobs execute_ast started for the last line, in order
  outcome,     \* how the last loop iteration of Shell.open ended
  this_command, \* a Command: its positional_arguments and optional_arguments
  bound,       \* the last call of Command.parse: its argument and what it gave
  thread_job,  \* a Job: its attributes and the position of its worker thread
  pipes,       \* the JobIO objects: bytes buffered, and which ends are open
  caller,      \* the thread that created the job: its calls and their results
  main,        \* the main thread on one line: its position in Shell.open
  stage,       \* the jobs execute_ast created for the line, and their threads
  ambient,     \* sys.stdin, sys.stdout and sys.stderr of the process
  written,     \* the writes made by the jobs of the line, oldest first
  ends         \* the JobIO objects of the line: descriptors and bytes buffered

astVars == <<tokens, parser, phase, nodes, jobio_count>>

shellVars == <<variables, history, dispatched, outcome>>

commandVars == <<this_command, bound>>

jobVars == <<thread_job, pipes, caller>>

pipelineVars == <<main, stage, ambient, written, ends>>

vars == <<astVars, shellVars, commandVars, jobVars, pipelineVars>>

----------------------------------------------------------------------------
(* Bounds of the model *)

MaxTokens == 5

MaxLines == 3

----------------------------------------------------------------------------
(* Strings *)

None == [dest |-> "None"]

Last(s) == s[Len(s)]

Front(s) == SubSeq(s, 1, Len(s) - 1)

\* str.startswith
StartsWith(s, pre) ==
  /\ Len(s) >= Len(pre)
  /\ SubSeq(s, 1, Len(pre)) = pre

\* str.endswith
EndsWith(s, suf) ==
  /\ Len(s) >= Len(suf)
  /\ SubSeq(s, Len(s) - Len(suf) + 1, Len(s)) = suf

IsSpace(c) == c \in {" ", "\n", "\t"}

RECURSIVE LStrip(_)
\* str.lstrip() with no argument
LStrip(s) ==
  IF s # <<>> /\ IsSpace(s[1]) THEN LStrip(Tail(s)) ELSE s

RECURSIVE RStrip(_)
\* str.rstrip() with no argument
RStrip(s) ==
  IF s # <<>> /\ IsSpace(Last(s)) THEN RStrip(Front(s)) ELSE s

\* str.strip() with no argument
Strip(s) == LStrip(RStrip(s))

RECURSIVE SplitWords(_, _, _)
\* the words of s between runs of whitespace; cur is the word being read
SplitWords(s, cur, acc) ==
  IF s = <<>>
    THEN IF cur = <<>> THEN acc ELSE Append(acc, cur)
    ELSE IF IsSpace(s[1])
      THEN SplitWords(Tail(s), <<>>, IF cur = <<>> THEN acc ELSE Append(acc, cur))
      ELSE SplitWords(Tail(s), Append(cur, s[1]), acc)

\* shellparser.parse_args: a line split into its word tokens
Tokenize(line) == SplitWords(line, <<>>, <<>>)

----------------------------------------------------------------------------
(* shellhost_ast.py: nodes and stream destinations *)

SysStdin == [dest |-> "sys.stdin"]

SysStdout == [dest |-> "sys.stdout"]

SysStderr == [dest |-> "sys.stderr"]

PIPE_OUT == [dest |-> "PIPE_OUT"]

PIPE_IN == [dest |-> "PIPE_IN"]

\* open(target, mode)
File(path, mode) == [dest |-> "file", path |-> path, mode |-> mode]

\* a JobIO object; id is its identity
JobIO(id) == [dest |-> "JobIO", id |-> id]

CommandNode ==
  [kind |-> "Command", arguments |-> <<>>, children |-> <<>>,
   stdin |-> SysStdin, stdout |-> SysStdout, stderr |-> SysStderr]

SubshellNode(children) ==
  [kind |-> "Subshell", arguments |-> <<>>, children |-> children,
   stdin |-> SysStdin, stdout |-> SysStdout, stderr |-> SysStderr]

CommandSubstitutionNode(inner_ast) ==
  [kind |-> "CommandSubstitution", text |-> <<>>, inner_ast |-> inner_ast]

\* a plain string argument
Literal(token) == [kind |-> "Literal", text |-> token, inner_ast |-> <<>>]

LPAREN == <<"(">>

RPAREN == <<")">>

BAR == <<"|">>

GT == <<">">>

GTGT == <<">", ">">>

TWOGT == <<"2", ">">>

TWOGTGT == <<"2", ">", ">">>

LT == <<"<">>

\* the tuple tested at shellhost_ast.py:105
RedirectionTokens == {GT, GTGT, TWOGT, LT}

ErrTooMany == "Unbalanced parentheses: too many ')'"

ErrMissing == "Unbalanced parentheses: missing ')'"

ErrPipe == "Pipe '|' with no previous command"

ErrRedirection == "Redirection with no previous command"

ErrTarget == "Missing target"

\* raise SyntaxError(msg) inside build_ast
Raise(p, msg) == [p EXCEPT !.error = msg]

\* stack[-1][-1] replaced by node
SetLastNode(stack, node) ==
  [stack EXCEPT ![Len(stack)] = [@ EXCEPT ![Len(@)] = node]]

\* stack[-1].append(node)
AppendNode(stack, node) ==
  [stack EXCEPT ![Len(stack)] = Append(@, node)]

\* the locals of build_ast before its loop
ParserInit == [i |-> 0, stack |-> << <<>> >>, next_stdin_source |-> None, error |-> ""]

\* token == '(' : start a new scope
SubshellStart(p) ==
  [p EXCEPT !.stack = Append(@, <<>>), !.i = @ + 1]

\* token == ')'
SubshellEnd(p) ==
  IF Len(p.stack) < 2
    THEN Raise(p, ErrTooMany)
    ELSE
      LET inner_nodes == Last(p.stack)
          popped == Front(p.stack)
          subshell0 == SubshellNode(inner_nodes)
          subshell == IF p.next_stdin_source # None
                        THEN [subshell0 EXCEPT !.stdin = p.next_stdin_source]
                        ELSE subshell0
      IN [p EXCEPT !.stack = AppendNode(popped, subshell),
                   !.next_stdin_source = None,
                   !.i = @ + 1]

\* a mutant of Pipe: a stdout that a redirection set is not overwritten
PipeKeepingFile(p) ==
  IF Last(p.stack) = <<>>
    THEN Raise(p, ErrPipe)
    ELSE
      LET last == Last(Last(p.stack))
      IN [p EXCEPT !.stack = IF last.stdout.dest = "file" THEN @
                              ELSE SetLastNode(@, [last EXCEPT !.stdout = PIPE_OUT]),
                   !.next_stdin_source = PIPE_IN,
                   !.i = @ + 1]

\* token == '|'
Pipe(p) ==
  IF Last(p.stack) = <<>>
    THEN Raise(p, ErrPipe)
    ELSE
      LET last == Last(Last(p.stack))
      IN [p EXCEPT !.stack = SetLastNode(@, [last EXCEPT !.stdout = PIPE_OUT]),
                   !.next_stdin_source = PIPE_IN,
                   !.i = @ + 1]

\* the if/elif chain of shellhost_ast.py:120-129 on the active node
ApplyRedirection(active_node, token, target) ==
  IF token = GT THEN [active_node EXCEPT !.stdout = File(target, "w")]
  ELSE IF token = GTGT THEN [active_node EXCEPT !.stdout = File(target, "a")]
  ELSE IF token = TWOGT THEN [active_node EXCEPT !.stderr = File(target, "w")]
  ELSE IF token = TWOGTGT THEN [active_node EXCEPT !.stderr = File(target, "a")]
  ELSE IF token = LT THEN [active_node EXCEPT !.stdin = File(target, "r")]
  ELSE active_node

\* token in ('>', '>>', '2>', '<')
Redirection(toks, p) ==
  IF Last(p.stack) = <<>>
    THEN Raise(p, ErrRedirection)
    ELSE IF p.i + 1 >= Len(toks)
      THEN Raise(p, ErrTarget)
      ELSE
        LET token == toks[p.i + 1]
            target == toks[p.i + 2]
            active_node == Last(Last(p.stack))
        IN [p EXCEPT !.stack = SetLastNode(@, ApplyRedirection(active_node, token, target)),
                     !.i = @ + 2]

RECURSIVE ParseArgument(_)
RECURSIVE Argument(_, _)
RECURSIVE LoopBody(_, _)
RECURSIVE RunLoop(_, _)

\* a mutant of EndOfInput: the final balance check left out
EndOfInputUnchecked(p) == p

\* the code after the loop: the final balance check and the return
EndOfInput(p) ==
  IF Len(p.stack) > 1 THEN Raise(p, ErrMissing) ELSE p

\* build_ast(tokens): [error, nodes]
BuildAst(toks) ==
  LET p == RunLoop(toks, ParserInit)
  IN [error |-> p.error, nodes |-> IF p.error = "" THEN p.stack[1] ELSE <<>>]

\* parse_argument(token): [error, arg]
ParseArgument(token) ==
  IF StartsWith(token, <<"$", "(">>) /\ EndsWith(token, <<")">>)
    THEN
      LET inner_content == SubSeq(token, 3, Len(token) - 1)
          inner_tokens == Tokenize(inner_content)
          inner == BuildAst(inner_tokens)
      IN [error |-> inner.error, arg |-> CommandSubstitutionNode(inner.nodes)]
    ELSE [error |-> "", arg |-> Literal(token)]

\* the else branch: a regular command word or argument
Argument(toks, p) ==
  LET token == toks[p.i + 1]
      start_new == \/ Last(p.stack) = <<>>
                   \/ Last(Last(p.stack)).kind = "Subshell"
                   \/ p.next_stdin_source # None
      parsed == ParseArgument(token)
  IN IF parsed.error # ""
       THEN Raise(p, parsed.error)
       ELSE IF start_new
         THEN
           LET cmd0 == [CommandNode EXCEPT !.arguments = <<parsed.arg>>]
               cmd == IF p.next_stdin_source # None
                        THEN [cmd0 EXCEPT !.stdin = p.next_stdin_source]
                        ELSE cmd0
           IN [p EXCEPT !.stack = AppendNode(@, cmd),
                        !.next_stdin_source = None,
                        !.i = @ + 1]
         ELSE
           LET last == Last(Last(p.stack))
           IN [p EXCEPT
                 !.stack = SetLastNode(@, [last EXCEPT !.arguments = Append(@, parsed.arg)]),
                 !.i = @ + 1]

\* which branch of the loop body a token takes
BranchOf(token) ==
  IF token = LPAREN THEN "SubshellStart"
  ELSE IF token = RPAREN THEN "SubshellEnd"
  ELSE IF token = BAR THEN "Pipe"
  ELSE IF token \in RedirectionTokens THEN "Redirection"
  ELSE "Argument"

\* one iteration of the while loop of build_ast
LoopBody(toks, p) ==
  LET branch == BranchOf(toks[p.i + 1])
  IN IF branch = "SubshellStart" THEN SubshellStart(p)
     ELSE IF branch = "SubshellEnd" THEN SubshellEnd(p)
     ELSE IF branch = "Pipe" THEN Pipe(p)
     ELSE IF branch = "Redirection" THEN Redirection(toks, p)
     ELSE Argument(toks, p)

\* the while loop of build_ast and the code after it
RunLoop(toks, p) ==
  IF p.error # "" THEN p
  ELSE IF p.i < Len(toks)
    THEN CHOOSE r \in {RunLoop(toks, q) : q \in {LoopBody(toks, p)}} : TRUE
  ELSE EndOfInput(p)

\* a mutant of Connect: both ends of the pipe given to the producer
ConnectSameNode(ns, k, connection) ==
  [ns EXCEPT ![k] = [@ EXCEPT !.stdout = connection, !.stdin = connection]]

\* curr.stdout = connection; nxt.stdin = connection
Connect(ns, k, connection) ==
  [ns EXCEPT ![k] = [@ EXCEPT !.stdout = connection],
             ![k + 1] = [@ EXCEPT !.stdin = connection]]

RECURSIVE LinkAdjacentUnchecked(_, _, _)
\* a mutant of LinkAdjacent: the test of nxt.stdin is dropped, so a pipe is
\* put over whatever the next node reads from
LinkAdjacentUnchecked(ns, k, next) ==
  IF k > Len(ns) - 1
    THEN [nodes |-> ns, next |-> next]
    ELSE
      IF ns[k].stdout = PIPE_OUT
        THEN LinkAdjacentUnchecked(Connect(ns, k, JobIO(next)), k + 1, next + 1)
        ELSE LinkAdjacentUnchecked(ns, k + 1, next)

RECURSIVE LinkAdjacent(_, _, _)
\* the first loop of link_pipes from index k on: [nodes, next], next the
\* identity of the next JobIO to allocate
LinkAdjacent(ns, k, next) ==
  IF k > Len(ns) - 1
    THEN [nodes |-> ns, next |-> next]
    ELSE
      LET curr == ns[k]
          nxt == ns[k + 1]
      IN IF curr.stdout = PIPE_OUT /\ nxt.stdin = PIPE_IN
           THEN LinkAdjacent(Connect(ns, k, JobIO(next)), k + 1, next + 1)
           ELSE LinkAdjacent(ns, k + 1, next)

RECURSIVE LinkPipes(_, _)
RECURSIVE LinkSubshells(_, _, _)

\* the second loop of link_pipes from index k on: recurse into subshells
LinkSubshells(ns, k, next) ==
  IF k > Len(ns)
    THEN [nodes |-> ns, next |-> next]
    ELSE IF ns[k].kind = "Subshell"
      THEN
        CHOOSE r \in {LinkSubshells([ns EXCEPT ![k] = [@ EXCEPT !.children = sub.nodes]],
                                    k + 1, sub.next) :
                        sub \in {LinkPipes(ns[k].children, next)}} : TRUE
      ELSE LinkSubshells(ns, k + 1, next)

\* link_pipes(nodes)
LinkPipes(ns, next) ==
  CHOOSE r \in {LinkSubshells(linked.nodes, 1, linked.next) :
                  linked \in {LinkAdjacent(ns, 1, next)}} : TRUE

----------------------------------------------------------------------------
(* The builder and the linker run on one input line *)

Word == <<"a">>

Alphabet == {LPAREN, RPAREN, BAR, GT, GTGT, TWOGT, TWOGTGT, LT, Word}

\* no line is being built
AstIdle ==
  /\ tokens = <<>>
  /\ parser = ParserInit
  /\ phase = "idle"
  /\ nodes = <<>>
  /\ jobio_count = 0

\* no command is declared
CommandIdle ==
  /\ this_command = [positional_arguments |-> <<>>, optional_arguments |-> <<>>]
  /\ bound = [call |-> "idle"]

\* no job is created
JobIdle ==
  /\ thread_job = [worker |-> "idle"]
  /\ pipes = <<>>
  /\ caller = [pc |-> "idle"]

\* no line is being run by threads
PipelineIdle ==
  /\ main = [pc |-> "idle"]
  /\ stage = <<>>
  /\ ambient = [stdin |-> SysStdin, stdout |-> SysStdout, stderr |-> SysStderr]
  /\ written = <<>>
  /\ ends = <<>>

\* the shell is not running
ShellIdle ==
  /\ variables = <<>>
  /\ history = <<>>
  /\ dispatched = <<>>
  /\ outcome = "idle"

AstInit ==
  /\ tokens = <<>>
  /\ parser = ParserInit
  /\ phase = "build"
  /\ nodes = <<>>
  /\ jobio_count = 0
  /\ ShellIdle
  /\ CommandIdle
  /\ JobIdle
  /\ PipelineIdle

\* the loop reads the token(s) more and runs one iteration on them
Iterate(more, branch) ==
  /\ Len(tokens) + Len(more) <= MaxTokens
  /\ BranchOf(more[1]) = branch
  /\ LET toks == tokens \o more
         p == LoopBody(toks, parser)
     IN /\ tokens' = toks
        /\ parser' = p
        /\ phase' = IF p.error # "" THEN "error" ELSE "build"
  /\ UNCHANGED <<nodes, jobio_count, shellVars, commandVars, jobVars, pipelineVars>>

\* the next token is '('
ReadSubshellStart ==
  /\ phase = "build"
  /\ Iterate(<<LPAREN>>, "SubshellStart")

\* the next token is ')'
ReadSubshellEnd ==
  /\ phase = "build"
  /\ Iterate(<<RPAREN>>, "SubshellEnd")

\* the next token is '|'
ReadPipe ==
  /\ phase = "build"
  /\ Iterate(<<BAR>>, "Pipe")

\* a redirection token at the end of the input, or followed by one more token
ReadRedirection ==
  /\ phase = "build"
  /\ \E token \in Alphabet, rest \in {<<>>} \cup {<<t>> : t \in Alphabet} :
       Iterate(<<token>> \o rest, "Redirection")

\* any other token: a command word or an argument
ReadArgument ==
  /\ phase = "build"
  /\ \E token \in Alphabet : Iterate(<<token>>, "Argument")

\* the input ends: the loop exits and build_ast returns or raises
ReadEnd ==
  /\ phase = "build"
  /\ LET p == EndOfInput(parser)
     IN /\ parser' = p
        /\ phase' = IF p.error # "" THEN "error" ELSE "built"
        /\ nodes' = IF p.error # "" THEN <<>> ELSE p.stack[1]
  /\ UNCHANGED <<tokens, jobio_count, shellVars, commandVars, jobVars, pipelineVars>>

\* ast_root = link_pipes(ast_root)
Link ==
  /\ phase = "built"
  /\ LET linked == LinkPipes(nodes, 0)
     IN /\ nodes' = linked.nodes
        /\ jobio_count' = linked.next
  /\ phase' = "linked"
  /\ UNCHANGED <<tokens, parser, shellVars, commandVars, jobVars, pipelineVars>>

AstNext ==
  \/ ReadSubshellStart
  \/ ReadSubshellEnd
  \/ ReadPipe
  \/ ReadRedirection
  \/ ReadArgument
  \/ ReadEnd
  \/ Link

SpecAst == AstInit /\ [][AstNext]_vars

----------------------------------------------------------------------------
(* The input line as the grammar reads it, computed from the tokens alone *)

\* the five redirection tokens of the grammar
FiveRedirections == {GT, GTGT, TWOGT, TWOGTGT, LT}

RECURSIVE IsTarget(_, _, _)
\* token k is the filename of a redirection token of the set redirs
IsTarget(toks, k, redirs) ==
  /\ k > 1
  /\ toks[k - 1] \in redirs
  /\ ~IsTarget(toks, k - 1, redirs)

\* token k is read as itself: it is not the filename of a redirection
IsStructural(toks, k, redirs) == ~IsTarget(toks, k, redirs)

RECURSIVE ParenDepth(_, _, _)
\* the number of '(' still open after the first k tokens
ParenDepth(toks, k, redirs) ==
  IF k = 0 THEN 0
  ELSE ParenDepth(toks, k - 1, redirs)
       + (IF IsStructural(toks, k, redirs) /\ toks[k] = LPAREN THEN 1 ELSE 0)
       - (IF IsStructural(toks, k, redirs) /\ toks[k] = RPAREN THEN 1 ELSE 0)

\* the '|' tokens read at the top level
TopLevelBars(toks, redirs) ==
  {k \in 1..Len(toks) :
     /\ toks[k] = BAR
     /\ IsStructural(toks, k, redirs)
     /\ ParenDepth(toks, k, redirs) = 0}

RECURSIVE Parens(_, _, _)
\* the parentheses of the first k tokens, in order
Parens(toks, k, redirs) ==
  IF k = 0 THEN <<>>
  ELSE Parens(toks, k - 1, redirs)
       \o (IF IsStructural(toks, k, redirs) /\ toks[k] \in {LPAREN, RPAREN}
             THEN <<toks[k]>> ELSE <<>>)

RECURSIVE Words(_, _, _)
\* the word tokens of the first k tokens, in order: neither a parenthesis, a
\* '|', a redirection token nor the filename of one
Words(toks, k, redirs) ==
  IF k = 0 THEN <<>>
  ELSE Words(toks, k - 1, redirs)
       \o (IF /\ IsStructural(toks, k, redirs)
              /\ toks[k] \notin ({LPAREN, RPAREN, BAR} \cup redirs)
             THEN <<toks[k]>> ELSE <<>>)

(* The tree *)

RECURSIVE Skeleton(_)
\* one '(' ... ')' pair for every Subshell node of a node list, in order
Skeleton(ns) ==
  IF ns = <<>> THEN <<>>
  ELSE (IF ns[1].kind = "Subshell"
          THEN <<LPAREN>> \o Skeleton(ns[1].children) \o <<RPAREN>>
          ELSE <<>>)
       \o Skeleton(Tail(ns))

RECURSIVE FlattenArguments(_)
\* the argument texts of every Command node of a node list, in order
FlattenArguments(ns) ==
  IF ns = <<>> THEN <<>>
  ELSE (IF ns[1].kind = "Subshell"
          THEN FlattenArguments(ns[1].children)
          ELSE [k \in 1..Len(ns[1].arguments) |-> ns[1].arguments[k].text])
       \o FlattenArguments(Tail(ns))

RECURSIVE FlattenStack(_)
\* the arguments held by the scopes of the builder's stack, outermost first
FlattenStack(stack) ==
  IF stack = <<>> THEN <<>>
  ELSE FlattenArguments(stack[1]) \o FlattenStack(Tail(stack))

RECURSIVE StreamRefs(_, _)
\* every (list, index, stream) of the tree under the list at path that holds
\* a JobIO, with the JobIO's identity
StreamRefs(ns, path) ==
  UNION {
    {[list |-> path, index |-> k, stream |-> f, id |-> ns[k][f].id] :
       f \in {g \in {"stdin", "stdout", "stderr"} : ns[k][g].dest = "JobIO"}}
    \cup (IF ns[k].kind = "Subshell"
            THEN StreamRefs(ns[k].children, Append(path, k))
            ELSE {})
    : k \in 1..Len(ns)}

\* the adjacent pairs of a node list joined by one JobIO
LinkedPairs(ns) ==
  {k \in 1..(Len(ns) - 1) :
     /\ ns[k].stdout.dest = "JobIO"
     /\ ns[k + 1].stdin = ns[k].stdout}

----------------------------------------------------------------------------
(* Claims about build_ast and link_pipes *)

\* C1: for a token sequence with N top-level `|` tokens the linked tree has
\* exactly N pipe objects, each joining two adjacent top-level stages.
\* It is stated here for the lines that hold no redirection token and whose
\* every `|` stands between two stages, where it fails all the same.
C1_PipePerBar ==
  (/\ phase = "linked"
   /\ \A k \in 1..Len(tokens) : tokens[k] \notin FiveRedirections
   /\ \A k \in 1..Len(tokens) :
        tokens[k] = BAR =>
          /\ k > 1 /\ tokens[k - 1] \in {Word, RPAREN}
          /\ k < Len(tokens) /\ tokens[k + 1] \in {Word, LPAREN})
  => Cardinality(LinkedPairs(nodes)) = Cardinality(TopLevelBars(tokens, FiveRedirections))

\* C2: every JobIO that link_pipes allocated is held by exactly two nodes:
\* as the stdout of one node and as the stdin of its next sibling in the
\* same list; so no node holds both ends of one pipe.
C2_PipeEnds ==
  phase = "linked" =>
    LET refs == StreamRefs(nodes, <<>>)
    IN /\ {r.id : r \in refs} = 0..(jobio_count - 1)
       /\ \A id \in 0..(jobio_count - 1) :
            LET mine == {r \in refs : r.id = id}
            IN /\ Cardinality(mine) = 2
               /\ \E w \in mine, r \in mine :
                    /\ w.stream = "stdout"
                    /\ r.stream = "stdin"
                    /\ r.list = w.list
                    /\ r.index = w.index + 1

\* C2 witness: a line whose linking allocated two pipes, so that one node
\* reads from one pipe and writes to another.
C2_Witness == phase = "linked" /\ jobio_count = 2

\* C3: build_ast rejects exactly the unbalanced inputs.  While it reads, the
\* scopes open on its stack are the '(' not yet closed; a ')' read with only
\* the root scope open raises "too many ')'" and nothing else does; the
\* input ending with a scope open raises "missing ')'", so a returned tree
\* comes from balanced input, and its Subshell nodes are the matched pairs.
C3_Balanced ==
  LET n == Len(tokens)
      depth == ParenDepth(tokens, n, RedirectionTokens)
  IN /\ phase = "build" => Len(parser.stack) = depth + 1
     /\ (phase = "error" /\ parser.error = ErrTooMany)
          <=> /\ phase = "error"
              /\ n > 0
              /\ tokens[n] = RPAREN
              /\ IsStructural(tokens, n, RedirectionTokens)
              /\ ParenDepth(tokens, n - 1, RedirectionTokens) = 0
     /\ (phase = "error" /\ parser.error = ErrMissing) => depth > 0
     /\ phase \in {"built", "linked"} =>
          /\ depth = 0
          /\ Skeleton(nodes) = Parens(tokens, n, RedirectionTokens)

\* C3 witness: a tree returned with two Subshell nodes, one inside the other.
C3_Witness ==
  /\ phase = "built"
  /\ Len(nodes) = 1
  /\ nodes[1].kind = "Subshell"
  /\ Len(nodes[1].children) = 1
  /\ nodes[1].children[1].kind = "Subshell"

\* the stream a redirection token writes
RedirectedStream(token) ==
  IF token \in {GT, GTGT} THEN "stdout"
  ELSE IF token \in {TWOGT, TWOGTGT} THEN "stderr"
  ELSE "stdin"

\* the mode a redirection token opens its file with
RedirectionMode(token) ==
  IF token \in {GT, TWOGT} THEN "w"
  ELSE IF token \in {GTGT, TWOGTGT} THEN "a"
  ELSE "r"

\* C4: each of `>`, `>>`, `2>`, `2>>`, `<` takes the token after it as a
\* filename and sets the last node's stdout, stdout, stderr, stderr, stdin to
\* File(filename, w | a | w | a | r); neither the redirection token nor its
\* filename becomes a command argument.
\* It is stated here for the lines that begin with a command word.
C4_Redirections ==
  LET n == Len(tokens)
  IN (phase = "build" /\ n > 0 /\ tokens[1] = Word) =>
       /\ FlattenStack(parser.stack) = Words(tokens, n, FiveRedirections)
       /\ (/\ n >= 2
           /\ tokens[n - 1] \in FiveRedirections
           /\ IsStructural(tokens, n - 1, FiveRedirections))
          => /\ Last(parser.stack) # <<>>
             /\ Last(Last(parser.stack))[RedirectedStream(tokens[n - 1])]
                  = File(tokens[n], RedirectionMode(tokens[n - 1]))

----------------------------------------------------------------------------
(* shellhost_shell.py: strings *)

Lower ==
  {"a", "b", "c", "d", "e", "f", "g", "h", "i", "j", "k", "l", "m",
   "n", "o", "p", "q", "r", "s", "t", "u", "v", "w", "x", "y", "z"}

Upper ==
  {"A", "B", "C", "D", "E", "F", "G", "H", "I", "J", "K", "L", "M",
   "N", "O", "P", "Q", "R", "S", "T", "U", "V", "W", "X", "Y", "Z"}

Digits == {"0", "1", "2", "3", "4", "5", "6", "7", "8", "9"}

\* one letter outside ASCII, such as U+00E9
OtherLetter == "e-acute"

\* [a-zA-Z_] of the pattern of expand_variables
NameStart == Lower \cup Upper \cup {"_"}

\* [a-zA-Z0-9_] of the pattern of expand_variables
NameChar == NameStart \cup Digits

\* str.isidentifier
IsIdentifier(s) ==
  /\ s # <<>>
  /\ s[1] \in NameStart \cup {OtherLetter}
  /\ \A k \in 1..Len(s) : s[k] \in NameChar \cup {OtherLetter}

\* the least index at which sub occurs in s, 0 when it does not
Find(s, sub) ==
  LET at == {k \in 1..(Len(s) - Len(sub) + 1) : SubSeq(s, k, k + Len(sub) - 1) = sub}
  IN IF at = {} THEN 0 ELSE CHOOSE k \in at : \A j \in at : k <= j

RECURSIVE Count(_, _)
\* str.count: the occurrences of sub in s that do not overlap
Count(s, sub) ==
  LET k == Find(s, sub)
  IN IF k = 0 THEN 0 ELSE 1 + Count(SubSeq(s, k + Len(sub), Len(s)), sub)

RECURSIVE Join(_, _)
\* sep.join(parts)
Join(parts, sep) ==
  IF parts = <<>> THEN <<>>
  ELSE IF Len(parts) = 1 THEN parts[1]
  ELSE parts[1] \o sep \o Join(Tail(parts), sep)

----------------------------------------------------------------------------
(* shellhost_shell.py: the passes of the executor *)

RECURSIVE ReassembleFrom(_, _, _, _, _)
\* the loop of reassemble_substitutions from token k on, and the code after it
ReassembleFrom(toks, k, new_tokens, buffer, depth) ==
  IF k > Len(toks)
    THEN new_tokens \o buffer
    ELSE
      LET token == toks[k]
          opens == Find(token, <<"$", "(">>) # 0
          depth1 == IF opens THEN depth + Count(token, <<"$", "(">>) ELSE depth
          depth2 == IF opens /\ Find(token, <<")">>) # 0 /\ depth1 > 0
                      THEN depth1 - Count(token, <<")">>)
                      ELSE depth1
      IN IF depth2 > 0
           THEN ReassembleFrom(toks, k + 1, new_tokens, Append(buffer, token), depth2)
           ELSE IF buffer # <<>>
             THEN ReassembleFrom(toks, k + 1,
                    Append(new_tokens, Join(Append(buffer, token), <<" ">>)), <<>>, depth2)
             ELSE ReassembleFrom(toks, k + 1, Append(new_tokens, token), <<>>, depth2)

\* Shell.reassemble_substitutions
ReassembleSubstitutions(toks) == ReassembleFrom(toks, 1, <<>>, <<>>, 0)

\* dict.get(key, "")
Get(table, key) == IF key \in DOMAIN table THEN table[key] ELSE <<>>

\* table[key] = value
Put(table, key, value) ==
  [k \in DOMAIN table \cup {key} |-> IF k = key THEN value ELSE table[k]]

\* Shell.handle_variable_assignment: [handled, variables]
HandleVariableAssignment(command, table) ==
  LET eq == Find(command, <<"=">>)
      key == Strip(SubSeq(command, 1, eq - 1))
      value == Strip(SubSeq(command, eq + 1, Len(command)))
  IN IF eq # 0 /\ Find(key, <<" ">>) = 0 /\ IsIdentifier(key)
       THEN [handled |-> TRUE, variables |-> Put(table, key, value)]
       ELSE [handled |-> FALSE, variables |-> table]

RECURSIVE NameEnd(_, _)
\* the index of the last character of the longest name of s that starts at k
NameEnd(s, k) ==
  IF k < Len(s) /\ s[k + 1] \in NameChar THEN NameEnd(s, k + 1) ELSE k

RECURSIVE Substitute(_, _)
\* re.sub(pattern, replace_match, s) of expand_variables
Substitute(s, table) ==
  IF s = <<>> THEN <<>>
  ELSE IF s[1] = "$" /\ Len(s) >= 2 /\ s[2] \in NameStart
    THEN LET e == NameEnd(s, 2)
         IN Get(table, SubSeq(s, 2, e)) \o Substitute(SubSeq(s, e + 1, Len(s)), table)
  ELSE IF s[1] = "$" /\ Len(s) >= 2 /\ s[2] \in {"?", "!", "$"}
    THEN Get(table, <<s[2]>>) \o Substitute(SubSeq(s, 3, Len(s)), table)
  ELSE <<s[1]>> \o Substitute(Tail(s), table)

\* Shell.expand_variables
ExpandVariables(user_input, table) ==
  [k \in 1..Len(user_input) |->
     IF user_input[k].kind = "CommandSubstitution"
       THEN user_input[k]
       ELSE Literal(Substitute(user_input[k].text, table))]

----------------------------------------------------------------------------
(* shellhost_command.py: the declarations of a Command *)

\* Python values that are not strings of the model
PyStr(s) == [str |-> s]

PyInt(s) == [int |-> s]

PyList(l) == [list |-> l]

PyDict(d) == [dict |-> d]

PyTrue == [bool |-> TRUE]

\* inspect._empty
Empty == [empty |-> TRUE]

\* the classes bool and int, as a dtype
BoolType == [class |-> "bool"]

IntType == [class |-> "int"]

\* nargs: a number, or '*'
Nargs(n) == [n |-> n]

Star == [star |-> "*"]

RECURSIVE Split(_, _, _)
\* s.split(sep) for a separator of one character; cur is the part being read
Split(s, sep, cur) ==
  IF s = <<>> THEN <<cur>>
  ELSE IF s[1] = sep THEN <<cur>> \o Split(Tail(s), sep, <<>>)
  ELSE Split(Tail(s), sep, Append(cur, s[1]))

RECURSIVE LStripChar(_, _)
\* s.lstrip(ch)
LStripChar(s, ch) ==
  IF s # <<>> /\ s[1] = ch THEN LStripChar(Tail(s), ch) ELSE s

\* s.replace(a, b) for single characters
Replace(s, a, b) == [k \in 1..Len(s) |-> IF s[k] = a THEN b ELSE s[k]]

\* dict.get(key) of a dict kept as the sequence of its items in insertion order
DictGet(d, key) ==
  IF \E k \in 1..Len(d) : d[k].key = key
    THEN d[CHOOSE k \in 1..Len(d) : d[k].key = key].value
    ELSE None

\* d[key] = value: an existing key keeps its place
DictSet(d, key, value) ==
  IF \E k \in 1..Len(d) : d[k].key = key
    THEN [k \in 1..Len(d) |-> IF d[k].key = key THEN [key |-> key, value |-> value] ELSE d[k]]
    ELSE Append(d, [key |-> key, value |-> value])

RECURSIVE DictSetAll(_, _, _)
\* for _name in name_parts_original: arg_dict[_name] = this_arg
DictSetAll(d, keys, value) ==
  IF keys = <<>> THEN d
  ELSE DictSetAll(DictSet(d, keys[1], value), Tail(keys), value)

\* name_lengths.index(max(name_lengths)): the first of the longest parts
LongestNameIndex(parts) ==
  CHOOSE k \in 1..Len(parts) :
    /\ \A j \in 1..Len(parts) : Len(parts[j]) <= Len(parts[k])
    /\ \A j \in 1..(k - 1) : Len(parts[j]) < Len(parts[k])

\* arg_name_formatted of an optional argument
FormattedName(name) ==
  LET name_parts_original == Split(name, "|", <<>>)
      name_parts_formatted ==
        [k \in 1..Len(name_parts_original) |->
           Replace(LStripChar(name_parts_original[k], "-"), "-", "_")]
  IN name_parts_formatted[LongestNameIndex(name_parts_formatted)]

\* Command.add_arg: [error, command]
AddArg(cmd, name, nargs, dtype, default, sig_name, is_bool) ==
  LET bool == is_bool \/ dtype = BoolType
      optional == name[1] = "-"
      this_arg ==
        [type |-> IF optional THEN "Optional" ELSE "Positional",
         original_name |-> name,
         formatted_name |-> IF optional THEN FormattedName(name) ELSE name,
         dtype |-> dtype,
         nargs |-> IF ~optional THEN nargs
                   ELSE IF bool THEN Nargs(0)
                   ELSE IF nargs = None THEN Nargs(1)
                   ELSE nargs,
         default |-> default,
         is_bool |-> bool,
         sig_name |-> sig_name]
  IN IF optional /\ bool /\ nargs # None /\ nargs # Nargs(0)
       THEN [error |-> "ValueError", command |-> cmd]
       ELSE IF optional /\ ~bool /\ nargs = Nargs(0)
         THEN [error |-> "ValueError", command |-> cmd]
         ELSE IF optional
           THEN [error |-> "",
                 command |-> [cmd EXCEPT !.optional_arguments =
                                DictSetAll(@, Split(name, "|", <<>>), this_arg)]]
           ELSE [error |-> "",
                 command |-> [cmd EXCEPT !.positional_arguments = DictSet(@, name, this_arg)]]

\* Command(name, func): no argument declared
NewCommand == [positional_arguments |-> <<>>, optional_arguments |-> <<>>]

\* a mutant of ArgName: the short flag is given without looking for an
\* earlier one
ArgNameAlwaysShort(cmd, param) ==
  IF param.default = Empty THEN param.name
  ELSE <<"-", param.name[1], "|", "-", "-">> \o param.name

\* arg_name of auto_command for one parameter
ArgName(cmd, param) ==
  IF param.default = Empty THEN param.name
  ELSE IF DictGet(cmd.optional_arguments, <<"-", param.name[1]>>) = None
    THEN <<"-", param.name[1], "|", "-", "-">> \o param.name
    ELSE <<"-", "-">> \o param.name

RECURSIVE AutoCommandFrom(_, _, _)
\* the loop of auto_command over sig.parameters from parameter k on
AutoCommandFrom(sig, k, cmd) ==
  IF k > Len(sig) THEN cmd
  ELSE
    LET param == sig[k]
        added == AddArg(cmd, ArgName(cmd, param),
                        IF param.kind = "VAR_POSITIONAL" THEN Star ELSE None,
                        IF param.annotation # Empty THEN param.annotation ELSE None,
                        IF param.default # Empty THEN param.default ELSE None,
                        param.name,
                        param.default \in {[bool |-> TRUE], [bool |-> FALSE]})
    IN CHOOSE r \in {AutoCommandFrom(sig, k + 1, next) : next \in {added.command}} : TRUE

\* Command.auto_command(func), sig the parameters of func
AutoCommand(sig) == AutoCommandFrom(sig, 1, NewCommand)

----------------------------------------------------------------------------
(* shellhost_command.py and shellhost/__init__.py: Command.parse *)

\* arg.get('dtype')(arg_val): [error, value]
Convert(dtype, arg_val) ==
  IF dtype = None THEN [error |-> "", value |-> PyStr(arg_val)]
  ELSE IF dtype = BoolType THEN [error |-> "", value |-> PyTrue]
  ELSE IF arg_val # <<>> /\ \A k \in 1..Len(arg_val) : arg_val[k] \in Digits
    THEN [error |-> "", value |-> PyInt(arg_val)]
    ELSE [error |-> "ParsingError", value |-> None]

RECURSIVE Positionals(_, _, _, _, _)
\* the loop over positional_arguments.values() from the k-th on; typed tells
\* the version that converts with dtype: [error, cli_args, positional_args]
Positionals(args, k, cli_args, positional_args, typed) ==
  IF k > Len(args)
    THEN [error |-> "", cli_args |-> cli_args, positional_args |-> positional_args]
  ELSE IF args[k].value.nargs = Star
    THEN [error |-> "", cli_args |-> <<>>,
          positional_args |-> [j \in 1..Len(cli_args) |-> PyStr(cli_args[j])]]
  ELSE IF cli_args = <<>>
    THEN [error |-> "ParsingError", cli_args |-> cli_args, positional_args |-> positional_args]
  ELSE
    LET arg_val == Convert(IF typed THEN args[k].value.dtype ELSE None, cli_args[1])
    IN IF arg_val.error # ""
         THEN [error |-> arg_val.error, cli_args |-> Tail(cli_args),
               positional_args |-> positional_args]
         ELSE Positionals(args, k + 1, Tail(cli_args),
                          Append(positional_args, arg_val.value), typed)

\* current_option['nargs'] = n, seen under every spelling of the option
SetNargs(cmd, current_option, n) ==
  [cmd EXCEPT !.optional_arguments =
     [k \in 1..Len(@) |->
        IF @[k].value.original_name = current_option.original_name
          THEN [@[k] EXCEPT !.value.nargs = Nargs(n)]
          ELSE @[k]]]

\* cli_args[(i+1):(i+1+nargs)], i counted from 0
Slice(cli_args, i, nargs) ==
  LET last == IF i + 1 + nargs < Len(cli_args) THEN i + 1 + nargs ELSE Len(cli_args)
  IN [j \in 1..(IF last > i + 1 THEN last - (i + 1) ELSE 0) |-> PyStr(cli_args[i + 1 + j])]

RECURSIVE Options(_, _, _, _, _)
\* the while loop of parse from index i (counted from 0); scalar tells the
\* version that binds a one-value option to the value itself:
\* [error, optional_args, command]
Options(cmd, cli_args, i, optional_args, scalar) ==
  IF i >= Len(cli_args)
    THEN [error |-> "", optional_args |-> optional_args, command |-> cmd]
  ELSE
    LET current_option == DictGet(cmd.optional_arguments, cli_args[i + 1])
        n == IF current_option.nargs = Star THEN Len(cli_args) - i ELSE current_option.nargs.n
    IN IF current_option = None
         THEN [error |-> "ParsingError", optional_args |-> optional_args, command |-> cmd]
       ELSE IF current_option.is_bool
         THEN Options(cmd, cli_args, i + 1,
                      Put(optional_args, current_option.formatted_name, PyTrue), scalar)
       ELSE IF scalar /\ current_option.nargs = Nargs(1)
         THEN IF i + 1 >= Len(cli_args)
                THEN [error |-> "IndexError", optional_args |-> optional_args, command |-> cmd]
                ELSE Options(cmd, cli_args, i + 2,
                             Put(optional_args, current_option.formatted_name,
                                 PyStr(cli_args[i + 2])), scalar)
       ELSE Options(IF current_option.nargs = Star
                      THEN SetNargs(cmd, current_option, n) ELSE cmd,
                    cli_args, i + n + 1,
                    Put(optional_args, current_option.formatted_name,
                        PyList(Slice(cli_args, i, n))), scalar)

\* what parse returns after the positional loop: [error, positional, optional, command]
Bind(cmd, taken, scalar) ==
  IF taken.error # ""
    THEN [error |-> taken.error, positional |-> None, optional |-> None, command |-> cmd]
  ELSE IF taken.cli_args = <<>>
    THEN [error |-> "", positional |-> PyList(taken.positional_args),
          optional |-> IF scalar THEN None ELSE PyDict(<<>>), command |-> cmd]
  ELSE
    CHOOSE r \in
      {[error |-> scanned.error,
        positional |-> IF scanned.error = "" THEN PyList(taken.positional_args) ELSE None,
        optional |-> IF scanned.error = "" THEN PyDict(scanned.optional_args) ELSE None,
        command |-> scanned.command] :
       scanned \in {Options(cmd, taken.cli_args, 0, <<>>, scalar)}} : TRUE

\* a mutant of Parse: the options are scanned first, the positionals after
ParseOptionsFirst(cmd, cli_args) ==
  IF cli_args = <<>>
    THEN [error |-> "", positional |-> None, optional |-> None, command |-> cmd]
    ELSE Bind(cmd, [error |-> "", cli_args |-> cli_args, positional_args |-> <<>>], TRUE)

\* Command.parse of shellhost_command.py
Parse(cmd, cli_args) ==
  IF cli_args = <<>>
    THEN [error |-> "", positional |-> None, optional |-> None, command |-> cmd]
    ELSE CHOOSE r \in
           {Bind(cmd, taken, TRUE) :
            taken \in {Positionals(cmd.positional_arguments, 1, cli_args, <<>>, TRUE)}} : TRUE

\* Command.parse of shellhost/__init__.py
PackageParse(cmd, cli_args) ==
  IF cli_args = <<>>
    THEN [error |-> "", positional |-> PyList(<<>>), optional |-> PyDict(<<>>), command |-> cmd]
    ELSE CHOOSE r \in
           {Bind(cmd, taken, FALSE) :
            taken \in {Positionals(cmd.positional_arguments, 1, cli_args, <<>>, FALSE)}} : TRUE

----------------------------------------------------------------------------
(* A command is declared and its parse is called *)

\* the number of add_arg calls on one command
MaxArgs == 3

\* the number of parameters of a callable given to auto_command
MaxParams == 2

\* the number of tokens given to parse
MaxCli == 4

\* the declarations add_arg is called with: name, -b|--bool as a switch,
\* -k|--kwarg, and -p with nargs=2
Declarations ==
  {[name |-> <<"n", "a", "m", "e">>, is_bool |-> FALSE, nargs |-> None],
   [name |-> <<"-", "b", "|", "-", "-", "b", "o", "o", "l">>, is_bool |-> TRUE,
    nargs |-> None],
   [name |-> <<"-", "k", "|", "-", "-", "k", "w", "a", "r", "g">>, is_bool |-> FALSE,
    nargs |-> None],
   [name |-> <<"-", "p">>, is_bool |-> FALSE, nargs |-> Nargs(2)]}

\* the parameters a callable is declared with: a, c, b=1, bar=True,
\* kwarg=None, *args
Parameters ==
  {[name |-> <<"a">>, default |-> Empty, kind |-> "POSITIONAL_OR_KEYWORD",
    annotation |-> Empty],
   [name |-> <<"c">>, default |-> Empty, kind |-> "POSITIONAL_OR_KEYWORD",
    annotation |-> Empty],
   [name |-> <<"b">>, default |-> PyInt(<<"1">>), kind |-> "POSITIONAL_OR_KEYWORD",
    annotation |-> Empty],
   [name |-> <<"b", "a", "r">>, default |-> PyTrue, kind |-> "POSITIONAL_OR_KEYWORD",
    annotation |-> Empty],
   [name |-> <<"k", "w", "a", "r", "g">>, default |-> None, kind |-> "POSITIONAL_OR_KEYWORD",
    annotation |-> Empty],
   [name |-> <<"a", "r", "g", "s">>, default |-> Empty, kind |-> "VAR_POSITIONAL",
    annotation |-> Empty]}

\* the parameter lists Python accepts: no name twice, one *args at most, and
\* before *args no parameter without a default after one with a default
Signatures ==
  {sig \in UNION {[1..n -> Parameters] : n \in 1..MaxParams} :
     /\ \A i, j \in 1..Len(sig) : sig[i].name = sig[j].name => i = j
     /\ \A i, j \in 1..Len(sig) :
          (i < j /\ sig[i].default # Empty /\ sig[j].default = Empty) =>
            \E v \in 1..j : sig[v].kind = "VAR_POSITIONAL"}

\* the tokens typed after the command name
CliTokens ==
  {<<"a", "l", "i", "c", "e">>, <<"x">>, <<"-", "b">>, <<"-", "-", "b", "o", "o", "l">>,
   <<"-", "k">>, <<"-", "-", "k", "w", "a", "r", "g">>, <<"-", "p">>}

CommandInit ==
  /\ this_command = NewCommand
  /\ bound = [call |-> "new", count |-> 0]
  /\ AstIdle
  /\ ShellIdle
  /\ JobIdle
  /\ PipelineIdle

\* cmd.add_arg(name, nargs=..., is_bool=...)
AddArgCall ==
  /\ bound.call \in {"new", "add_arg"}
  /\ bound.count < MaxArgs
  /\ \E d \in Declarations :
       \E added \in {AddArg(this_command, d.name, d.nargs, None, None, None, d.is_bool)} :
         /\ this_command' = added.command
         /\ bound' = [call |-> "add_arg", count |-> bound.count + 1, error |-> added.error]
  /\ UNCHANGED <<astVars, shellVars, jobVars, pipelineVars>>

\* @Command.auto_command on a callable
AutoCommandCall ==
  /\ bound.call = "new"
  /\ \E sig \in Signatures :
       /\ this_command' = AutoCommand(sig)
       /\ bound' = [call |-> "auto_command", sig |-> sig]
  /\ UNCHANGED <<astVars, shellVars, jobVars, pipelineVars>>

\* the token lists parse is called with
CliArgs == UNION {[1..n -> CliTokens] : n \in 0..MaxCli}

\* cmd.parse(cli_args) of shellhost_command.py
ParseCall ==
  /\ bound.call \in {"add_arg", "auto_command"}
  /\ \E cli_args \in CliArgs :
       \E done \in {Parse(this_command, cli_args)} :
         /\ this_command' = done.command
         /\ bound' = [call |-> "parse", cli_args |-> cli_args, error |-> done.error,
                      positional |-> done.positional, optional |-> done.optional,
                      declared |-> this_command]
  /\ UNCHANGED <<astVars, shellVars, jobVars, pipelineVars>>

\* cmd.parse(cli_args) of shellhost/__init__.py
PackageParseCall ==
  /\ bound.call \in {"add_arg", "auto_command"}
  /\ \E cli_args \in CliArgs :
       \E done \in {PackageParse(this_command, cli_args)} :
         /\ this_command' = done.command
         /\ bound' = [call |-> "package parse", cli_args |-> cli_args, error |-> done.error,
                      positional |-> done.positional, optional |-> done.optional,
                      declared |-> this_command]
  /\ UNCHANGED <<astVars, shellVars, jobVars, pipelineVars>>

CommandNext ==
  \/ AddArgCall
  \/ AutoCommandCall
  \/ ParseCall
  \/ PackageParseCall

SpecCommand == CommandInit /\ [][CommandNext]_vars

----------------------------------------------------------------------------
(* Claims about the binder and the derivation of declarations *)

\* the keys of a dict, in insertion order
Keys(d) == [k \in 1..Len(d) |-> d[k].key]

\* the command of the example: positional name, -b|--bool, -k|--kwarg
IsExampleCommand(cmd) ==
  /\ Keys(cmd.positional_arguments) = << <<"n", "a", "m", "e">> >>
  /\ {cmd.optional_arguments[k].key : k \in 1..Len(cmd.optional_arguments)} =
       {<<"-", "b">>, <<"-", "-", "b", "o", "o", "l">>,
        <<"-", "k">>, <<"-", "-", "k", "w", "a", "r", "g">>}

\* alice, then the switch and the valued option with x, in either order and
\* under either spelling
ExampleArgs ==
  {<<<<"a", "l", "i", "c", "e">>, b, k, <<"x">>>> :
     b \in {<<"-", "b">>, <<"-", "-", "b", "o", "o", "l">>},
     k \in {<<"-", "k">>, <<"-", "-", "k", "w", "a", "r", "g">>}}
  \cup
  {<<<<"a", "l", "i", "c", "e">>, k, <<"x">>, b>> :
     b \in {<<"-", "b">>, <<"-", "-", "b", "o", "o", "l">>},
     k \in {<<"-", "k">>, <<"-", "-", "k", "w", "a", "r", "g">>}}

\* optional = {bool: true, kwarg: value}
ExampleOptions(value) ==
  PyDict(Put(Put(<<>>, <<"b", "o", "o", "l">>, PyTrue), <<"k", "w", "a", "r", "g">>, value))

\* the example command has parsed the example's tokens
ExampleParsed ==
  /\ bound.call \in {"parse", "package parse"}
  /\ IsExampleCommand(this_command)
  /\ bound.cli_args \in ExampleArgs

\* C7: the tokens [alice, -b, -k, x] bind positional = [alice] and
\* optional = {bool: true, kwarg: [x]}, the valued option as the list of its
\* values, under the formatted name whichever spelling was typed
C7_BindsValueList ==
  ExampleParsed =>
    /\ bound.error = ""
    /\ bound.positional = PyList(<<PyStr(<<"a", "l", "i", "c", "e">>)>>)
    /\ bound.optional = ExampleOptions(PyList(<<PyStr(<<"x">>)>>))

\* C7 as amended: parse of shellhost_command.py binds the one-value option to
\* the value x itself, parse of shellhost/__init__.py to the list [x]; the
\* positional is [alice] and the switch is true under the formatted names
C7_BindsValue ==
  ExampleParsed =>
    /\ bound.error = ""
    /\ bound.positional = PyList(<<PyStr(<<"a", "l", "i", "c", "e">>)>>)
    /\ bound.call = "parse" => bound.optional = ExampleOptions(PyStr(<<"x">>))
    /\ bound.call = "package parse" =>
         bound.optional = ExampleOptions(PyList(<<PyStr(<<"x">>)>>))

C7_Witness ==
  /\ ExampleParsed
  /\ bound.call = "parse"
  /\ bound.cli_args = <<<<"a", "l", "i", "c", "e">>, <<"-", "b">>, <<"-", "k">>, <<"x">>>>
  /\ bound.optional = ExampleOptions(PyStr(<<"x">>))

\* parameter k of sig is the first with a default whose name starts with
\* its first character
FirstWithShortFlag(sig, k) ==
  \A j \in 1..(k - 1) : sig[j].default = Empty \/ sig[j].name[1] # sig[k].name[1]

\* the parameter whose declaration the option spelling refers to, None when
\* the spelling is not declared
OptionOf(cmd, spelling) ==
  LET declared == DictGet(cmd.optional_arguments, spelling)
  IN IF declared = None THEN None ELSE PyStr(declared.sig_name)

\* C8: auto_command makes each parameter without a default a positional and
\* each parameter with a default an option under --name and, unless an
\* earlier parameter took it, under -c for its first character c; a boolean
\* default gives nargs 0 and *args gives nargs '*'; (a, b=1) gives the
\* positional a and one option spelled -b and --b
C8_AutoDerivation ==
  bound.call = "auto_command" =>
    /\ \A k \in 1..Len(bound.sig) :
         LET param == bound.sig[k]
             positional == DictGet(this_command.positional_arguments, param.name)
             long == DictGet(this_command.optional_arguments, <<"-", "-">> \o param.name)
         IN IF param.default = Empty
              THEN /\ positional # None
                   /\ long = None
                   /\ \A j \in 1..Len(this_command.optional_arguments) :
                        this_command.optional_arguments[j].value.sig_name # param.name
                   /\ param.kind = "VAR_POSITIONAL" => positional.nargs = Star
              ELSE /\ positional = None
                   /\ long # None
                   /\ long.sig_name = param.name
                   /\ long.formatted_name = param.name
                   /\ (OptionOf(this_command, <<"-", param.name[1]>>) = PyStr(param.name))
                        <=> FirstWithShortFlag(bound.sig, k)
                   /\ long.is_bool <=> param.default \in {[bool |-> TRUE], [bool |-> FALSE]}
                   /\ long.nargs = IF long.is_bool THEN Nargs(0) ELSE Nargs(1)
    /\ (Len(bound.sig) = 2 /\ bound.sig[1].name = <<"a">> /\ bound.sig[2].name = <<"b">>) =>
         /\ Keys(this_command.positional_arguments) = << <<"a">> >>
         /\ Keys(this_command.optional_arguments) = << <<"-", "b">>, <<"-", "-", "b">> >>
         /\ this_command.optional_arguments[1].value = this_command.optional_arguments[2].value

C8_Witness ==
  /\ bound.call = "auto_command"
  /\ Len(bound.sig) = 2
  /\ bound.sig[1].name = <<"a">>
  /\ bound.sig[2].name = <<"b">>
  /\ Len(this_command.optional_arguments) = 2

\* the positionals parse pops one token each for: those declared before the
\* first with nargs '*'
RECURSIVE Required(_, _)
Required(args, k) ==
  IF k > Len(args) \/ args[k].value.nargs = Star THEN 0
  ELSE 1 + Required(args, k + 1)

\* C19: parse called with fewer tokens than the command has positionals of
\* fixed arity, the empty list included, raises a ParsingError and returns
\* no binding
C19_TooFewTokensRejected ==
  (bound.call = "parse" /\
   Len(bound.cli_args) < Required(bound.declared.positional_arguments, 1)) =>
    bound.error = "ParsingError"

\* the tokens left for the options once every positional has its token
OptionTokens(cmd, cli_args) ==
  SubSeq(cli_args, Required(cmd.positional_arguments, 1) + 1, Len(cli_args))

RECURSIVE Starved(_, _, _)
\* scanning rest from index i (counted from 0) with each flag taking the
\* tokens its arity says, a flag of fixed arity n is met with fewer than n
\* tokens after it
Starved(cmd, rest, i) ==
  IF i >= Len(rest) THEN FALSE
  ELSE LET option == DictGet(cmd.optional_arguments, rest[i + 1])
       IN IF option = None \/ option.nargs = Star THEN FALSE
          ELSE IF option.is_bool THEN Starved(cmd, rest, i + 1)
          ELSE IF Len(rest) - (i + 1) < option.nargs.n THEN TRUE
          ELSE Starved(cmd, rest, i + option.nargs.n + 1)

RECURSIVE Consumed(_, _, _, _)
\* the same scan, giving the binding when every flag is declared and has
\* its tokens: true for a switch, the one token for arity 1, the list of
\* the n tokens for arity n; None when a token is no declared flag
Consumed(cmd, rest, i, optional_args) ==
  IF i >= Len(rest) THEN PyDict(optional_args)
  ELSE LET option == DictGet(cmd.optional_arguments, rest[i + 1])
       IN IF option = None THEN None
          ELSE IF option.is_bool
            THEN Consumed(cmd, rest, i + 1, Put(optional_args, option.formatted_name, PyTrue))
          ELSE IF option.nargs = Star
            THEN PyDict(Put(optional_args, option.formatted_name,
                            PyList([j \in 1..(Len(rest) - (i + 1)) |->
                                      PyStr(rest[i + 1 + j])])))
          ELSE IF option.nargs.n = 1
            THEN Consumed(cmd, rest, i + 2,
                          Put(optional_args, option.formatted_name, PyStr(rest[i + 2])))
          ELSE Consumed(cmd, rest, i + option.nargs.n + 1,
                        Put(optional_args, option.formatted_name,
                            PyList([j \in 1..option.nargs.n |-> PyStr(rest[i + 1 + j])])))

\* C20: in the option scan of parse a switch takes no token and binds true
\* and a flag of arity n takes the n tokens after it; when fewer than n
\* tokens follow a flag parse raises a ParsingError and returns no binding
C20_OptionsConsumeTheirArity ==
  (/\ bound.call = "parse"
   /\ \A k \in 1..Len(bound.declared.positional_arguments) :
        bound.declared.positional_arguments[k].value.nargs # Star
   /\ Len(bound.cli_args) > Required(bound.declared.positional_arguments, 1)) =>
    IF Starved(bound.declared, OptionTokens(bound.declared, bound.cli_args), 0)
      THEN bound.error = "ParsingError"
      ELSE Consumed(bound.declared, OptionTokens(bound.declared, bound.cli_args), 0, <<>>)
             # None =>
           /\ bound.error = ""
           /\ bound.optional =
                Consumed(bound.declared, OptionTokens(bound.declared, bound.cli_args), 0, <<>>)

----------------------------------------------------------------------------
(* Typed declarations, and a command bound more than once *)

\* the number of add_arg calls on the command that is bound repeatedly
MaxDeclared == 2

\* the number of parse calls on one command
MaxBinds == 2

\* the number of tokens of one of these parse calls
MaxBindTokens == 3

\* add_arg('n', dtype=int), add_arg('f', dtype=bool), add_arg('-r', nargs='*'),
\* add_arg('-b', is_bool=True), add_arg('-b', nargs=2, is_bool=True) and
\* add_arg('-z', nargs=0)
TypedDeclarations ==
  {[name |-> <<"n">>, nargs |-> None, dtype |-> IntType, is_bool |-> FALSE],
   [name |-> <<"f">>, nargs |-> None, dtype |-> BoolType, is_bool |-> FALSE],
   [name |-> <<"-", "r">>, nargs |-> Star, dtype |-> None, is_bool |-> FALSE],
   [name |-> <<"-", "b">>, nargs |-> None, dtype |-> None, is_bool |-> TRUE],
   [name |-> <<"-", "b">>, nargs |-> Nargs(2), dtype |-> None, is_bool |-> TRUE],
   [name |-> <<"-", "z">>, nargs |-> Nargs(0), dtype |-> None, is_bool |-> FALSE]}

\* def f(a: int, *args: int), def f(*args: int), def f(a: bool) and
\* def f(a: int, verbose=True)
TypedSignatures ==
  {<<[name |-> <<"a">>, default |-> Empty, kind |-> "POSITIONAL_OR_KEYWORD",
      annotation |-> IntType],
     [name |-> <<"a", "r", "g", "s">>, default |-> Empty, kind |-> "VAR_POSITIONAL",
      annotation |-> IntType]>>,
   <<[name |-> <<"a", "r", "g", "s">>, default |-> Empty, kind |-> "VAR_POSITIONAL",
      annotation |-> IntType]>>,
   <<[name |-> <<"a">>, default |-> Empty, kind |-> "POSITIONAL_OR_KEYWORD",
      annotation |-> BoolType]>>,
   <<[name |-> <<"a">>, default |-> Empty, kind |-> "POSITIONAL_OR_KEYWORD",
      annotation |-> IntType],
     [name |-> <<"v", "e", "r", "b", "o", "s", "e">>, default |-> PyTrue,
      kind |-> "POSITIONAL_OR_KEYWORD", annotation |-> Empty]>>}

\* the tokens of these parse calls
BindTokens == {<<"7">>, <<"x">>, <<"-", "r">>, <<"-", "b">>}

BindArgs == UNION {[1..n -> BindTokens] : n \in 0..MaxBindTokens}

BinderInit ==
  /\ this_command = NewCommand
  /\ bound = [call |-> "new", count |-> 0]
  /\ AstIdle
  /\ ShellIdle
  /\ JobIdle
  /\ PipelineIdle

\* cmd.add_arg(name, nargs=..., dtype=..., is_bool=...)
DeclareTyped ==
  /\ bound.call \in {"new", "add_arg"}
  /\ bound.count < MaxDeclared
  /\ \E d \in TypedDeclarations :
       \E added \in {AddArg(this_command, d.name, d.nargs, d.dtype, None, None, d.is_bool)} :
         /\ this_command' = added.command
         /\ bound' = [call |-> "add_arg", count |-> bound.count + 1, error |-> added.error,
                      declaration |-> d, before |-> this_command]
  /\ UNCHANGED <<astVars, shellVars, jobVars, pipelineVars>>

\* @Command.auto_command on a callable with annotations
DeriveTyped ==
  /\ bound.call = "new"
  /\ \E sig \in TypedSignatures :
       /\ this_command' = AutoCommand(sig)
       /\ bound' = [call |-> "auto_command", sig |-> sig]
  /\ UNCHANGED <<astVars, shellVars, jobVars, pipelineVars>>

\* cmd.parse(cli_args), the first call on this command or a later one
Rebind ==
  /\ bound.call \in {"add_arg", "auto_command", "parse"}
  /\ bound.call = "parse" => bound.count < MaxBinds
  /\ \E cli_args \in BindArgs :
       \E done \in {Parse(this_command, cli_args)} :
         /\ this_command' = done.command
         /\ bound' = [call |-> "parse", cli_args |-> cli_args, error |-> done.error,
                      positional |-> done.positional, optional |-> done.optional,
                      declared |-> IF bound.call = "parse" THEN bound.declared
                                   ELSE this_command,
                      count |-> IF bound.call = "parse" THEN bound.count + 1 ELSE 1]
  /\ UNCHANGED <<astVars, shellVars, jobVars, pipelineVars>>

BinderNext ==
  \/ DeclareTyped
  \/ DeriveTyped
  \/ Rebind

SpecBinder == BinderInit /\ [][BinderNext]_vars

\* the tokens of the fixed positionals are ones their dtype converts
Convertible(cmd, cli_args) ==
  \A k \in 1..Required(cmd.positional_arguments, 1) :
    (k <= Len(cli_args) /\ cmd.positional_arguments[k].value.dtype = IntType) =>
      /\ cli_args[k] # <<>>
      /\ \A j \in 1..Len(cli_args[k]) : cli_args[k][j] \in Digits

\* the command as declared has no positional of arity '*'
NoStarPositional(cmd) ==
  \A k \in 1..Len(cmd.positional_arguments) :
    cmd.positional_arguments[k].value.nargs # Star

\* the first token left for the options is the flag of an option declared
\* with nargs '*'
StarFlagFirst(cmd, cli_args) ==
  /\ NoStarPositional(cmd)
  /\ Convertible(cmd, cli_args)
  /\ Len(cli_args) > Required(cmd.positional_arguments, 1)
  /\ DictGet(cmd.optional_arguments, OptionTokens(cmd, cli_args)[1]) # None
  /\ DictGet(cmd.optional_arguments, OptionTokens(cmd, cli_args)[1]).nargs = Star

\* C21: when the flag of an option declared with nargs '*' is met in the
\* option scan, parse binds that option to the list of every token after the
\* flag up to the end of the token list and looks none of them up as an option
C21_StarOptionTakesTheRest ==
  (bound.call = "parse" /\ StarFlagFirst(bound.declared, bound.cli_args)) =>
    /\ bound.error = ""
    /\ bound.optional =
         Consumed(bound.declared, OptionTokens(bound.declared, bound.cli_args), 0, <<>>)

\* the positional a token is bound to: the k-th of fixed arity, or the one
\* of arity '*' for every token after those
PositionalOf(args, k) ==
  IF k <= Required(args, 1) THEN args[k].value ELSE args[Required(args, 1) + 1].value

\* the tokens parse binds to positionals: one for each positional of fixed
\* arity and, with a positional of arity '*', every token after those
PositionalTokens(args, cli_args) ==
  IF Required(args, 1) < Len(args) THEN Len(cli_args) ELSE Required(args, 1)

\* C22: each token bound to a positional is converted with the dtype the
\* positional declares, the tokens of a positional of arity '*' included;
\* when a conversion raises, parse raises a ParsingError and no other
\* exception
C22_DtypeConvertsPositionals ==
  (/\ bound.call = "parse"
   /\ bound.cli_args # <<>>
   /\ Len(bound.cli_args) >= Required(bound.declared.positional_arguments, 1)) =>
    LET args == bound.declared.positional_arguments
        converted == [k \in 1..PositionalTokens(args, bound.cli_args) |->
                        Convert(PositionalOf(args, k).dtype, bound.cli_args[k])]
    IN IF \E k \in 1..Len(converted) : converted[k].error # ""
         THEN bound.error = "ParsingError"
         ELSE bound.error = "" =>
                bound.positional = PyList([k \in 1..Len(converted) |-> converted[k].value])

\* the parameter specs a command stores, positional and optional
StoredSpecs(cmd) ==
  {cmd.positional_arguments[k].value : k \in 1..Len(cmd.positional_arguments)}
  \cup {cmd.optional_arguments[k].value : k \in 1..Len(cmd.optional_arguments)}

\* the add_arg call declared an option: a name that begins with a hyphen
DeclaredOption(d) == d.name[1] = "-"

\* the add_arg call declared a boolean: is_bool given or dtype bool
DeclaredBoolean(d) == d.is_bool \/ d.dtype = BoolType

\* C23: every parameter spec a command stores, positional or optional, with
\* is_bool true has nargs 0; add_arg raises ValueError and leaves both
\* argument tables as they were for a boolean option declared with nonzero
\* nargs and for a non-boolean option declared with nargs 0
C23_BooleanHasNoValues ==
  /\ \A spec \in StoredSpecs(this_command) : spec.is_bool => spec.nargs = Nargs(0)
  /\ (/\ bound.call = "add_arg"
      /\ DeclaredOption(bound.declaration)
      /\ \/ DeclaredBoolean(bound.declaration) /\ bound.declaration.nargs \notin {None, Nargs(0)}
         \/ ~DeclaredBoolean(bound.declaration) /\ bound.declaration.nargs = Nargs(0)) =>
       /\ bound.error = "ValueError"
       /\ this_command = bound.before

----------------------------------------------------------------------------
(* shellhost_io.py: JobIO and Job *)

\* the size of one os.read of JobIO.read
ChunkSize == 4096

\* the bytes a pipe of os.pipe() holds before a write blocks
PipeCapacity == 16 * ChunkSize

\* subprocess.PIPE and subprocess.STDOUT
PIPE == [dest |-> "subprocess.PIPE"]

STDOUT == [dest |-> "subprocess.STDOUT"]

\* JobIO(): both ends of a new pipe open, nothing buffered
NewPipe == [buf |-> 0, w_open |-> TRUE, r_open |-> TRUE]

\* Job.__init__ with stdin=None: self.stdout, self.stderr and the three
\* streams of its IOManager; a None sink gets a JobIO of the IOManager's own
JobNew(stdout, stderr, ps) ==
  LET own_out == IF stdout = PIPE THEN 1 ELSE 0
      own_err == IF stderr = PIPE THEN 1 ELSE 0
      self_stdout == IF stdout = PIPE THEN JobIO(Len(ps) + 1) ELSE stdout
      self_stderr == IF stderr = PIPE THEN JobIO(Len(ps) + own_out + 1)
                     ELSE IF stderr = STDOUT THEN self_stdout
                     ELSE stderr
      base == Len(ps) + own_out + own_err
      io_out == IF self_stdout = None THEN 1 ELSE 0
      io_err == IF self_stderr = None THEN 1 ELSE 0
  IN [job |-> [stdin |-> None, stdout |-> self_stdout, stderr |-> self_stderr,
               stdin_stream |-> JobIO(base + 1),
               stdout_sink |-> IF self_stdout = None THEN JobIO(base + 2) ELSE self_stdout,
               stderr_sink |-> IF self_stderr = None THEN JobIO(base + 1 + io_out + 1)
                               ELSE self_stderr,
               returncode |-> None],
      pipes |-> ps \o [k \in 1..(own_out + own_err + 1 + io_out + io_err) |-> NewPipe]]

\* stream.write(data) of n bytes: a pipe takes what fits and the writer
\* stays blocked on the rest: [pipes, left]
Write(ps, stream, n) ==
  IF stream.dest # "JobIO" THEN [pipes |-> ps, left |-> 0]
  ELSE LET space == PipeCapacity - ps[stream.id].buf
           taken == IF n <= space THEN n ELSE space
       IN [pipes |-> [ps EXCEPT ![stream.id].buf = @ + taken], left |-> n - taken]

\* JobIO.read(): one os.read of at most ChunkSize bytes: [pipes, data, blocked]
Read(ps, id) ==
  LET n == IF ps[id].buf <= ChunkSize THEN ps[id].buf ELSE ChunkSize
  IN IF ps[id].buf = 0 /\ ps[id].w_open
       THEN [pipes |-> ps, data |-> 0, blocked |-> TRUE]
       ELSE [pipes |-> [ps EXCEPT ![id].buf = @ - n], data |-> n, blocked |-> FALSE]

\* one line of the finally clause of _run_wrapper:
\* if stream and stream is not inherited: stream._close(stream._w_fd)
CloseWriteEnd(ps, stream, inherited) ==
  IF stream = None \/ stream = inherited THEN [pipes |-> ps, error |-> ""]
  ELSE IF stream.dest # "JobIO" THEN [pipes |-> ps, error |-> "AttributeError"]
  ELSE IF ps[stream.id].w_open
    THEN [pipes |-> [ps EXCEPT ![stream.id].w_open = FALSE], error |-> ""]
    ELSE [pipes |-> ps, error |-> "TypeError"]

\* the finally clause of _run_wrapper: [pipes, error]
Finally(ps, j) ==
  CHOOSE r \in
    {IF out.error # "" THEN out ELSE CloseWriteEnd(out.pipes, j.stderr, SysStderr) :
     out \in {CloseWriteEnd(ps, j.stdout, SysStdout)}} : TRUE

\* self.stdout.read() then self.stderr.read() inside the try of communicate:
\* [pipes, stdout_data, stderr_data, blocked]
ReadBoth(ps, j) ==
  IF j.stdout.dest # "JobIO"
    THEN [pipes |-> ps, stdout_data |-> 0, stderr_data |-> 0, blocked |-> FALSE]
    ELSE CHOOSE r \in
           {IF out.blocked \/ j.stderr.dest # "JobIO"
              THEN [pipes |-> out.pipes, stdout_data |-> out.data, stderr_data |-> 0,
                    blocked |-> out.blocked]
              ELSE CHOOSE e \in
                     {[pipes |-> err.pipes, stdout_data |-> out.data,
                       stderr_data |-> err.data, blocked |-> err.blocked] :
                      err \in {Read(out.pipes, j.stderr.id)}} : TRUE :
            out \in {Read(ps, j.stdout.id)}} : TRUE

\* Job.poll(): only a thread that is dead with no returncode recorded gets
\* returncode 0 and has it returned; every other call falls off the end of
\* the function: [job, result]
Poll(j) ==
  IF j.worker = "dead" /\ j.returncode = None
    THEN [job |-> [j EXCEPT !.returncode = PyInt(<<"0">>)], result |-> PyInt(<<"0">>)]
    ELSE [job |-> j, result |-> None]

----------------------------------------------------------------------------
(* A job is created, its worker runs, its creator communicates *)

\* the bytes of the longest message of an exception
MaxMessage == 2

\* the stdout and stderr arguments Job is created with
StdoutArguments == {PIPE, None, File(<<"f">>, "w"), SysStdout}

StderrArguments == {PIPE, STDOUT, None, File(<<"g">>, "w"), SysStderr}

\* the bytes the callable prints: nothing, a byte, one chunk and a byte
\* more, a full pipe and a byte more
OutputSizes == {0, 1, ChunkSize, ChunkSize + 1, PipeCapacity, PipeCapacity + 1}

JobInit ==
  /\ JobIdle
  /\ PipelineIdle
  /\ AstIdle
  /\ ShellIdle
  /\ CommandIdle

\* Job(func, stdout=..., stderr=...): the streams are set up and the worker
\* thread is started
JobCreate ==
  /\ thread_job.worker = "idle"
  /\ \E stdout \in StdoutArguments, stderr \in StderrArguments,
        output \in OutputSizes, raises \in BOOLEAN, message \in 1..MaxMessage :
       \E new \in {JobNew(stdout, stderr, pipes)} :
         /\ raises \/ message = 1
         /\ thread_job' = [stdin |-> new.job.stdin, stdout |-> new.job.stdout,
                           stderr |-> new.job.stderr,
                           stdin_stream |-> new.job.stdin_stream,
                           stdout_sink |-> new.job.stdout_sink,
                           stderr_sink |-> new.job.stderr_sink,
                           returncode |-> None, worker |-> "started",
                           output |-> output, raises |-> raises, message |-> message,
                           left |-> 0, uncaught |-> ""]
         /\ pipes' = new.pipes
  /\ caller' = [pc |-> "created"]
  /\ UNCHANGED <<astVars, shellVars, commandVars, pipelineVars>>

\* the worker, inside `with self.io`, calls the callable, which prints to
\* sys.stdout and returns or raises; a write to a full pipe does not return
WorkerCall ==
  /\ thread_job.worker = "started"
  /\ \E wrote \in {Write(pipes, thread_job.stdout_sink, thread_job.output)} :
       /\ pipes' = wrote.pipes
       /\ thread_job' = [thread_job EXCEPT
            !.left = wrote.left,
            !.worker = IF wrote.left > 0 THEN "blocked"
                       ELSE IF thread_job.raises THEN "raised" ELSE "returned"]
  /\ UNCHANGED <<caller, astVars, shellVars, commandVars, pipelineVars>>

\* self.returncode = 0, or the except clause: the message is written to
\* self.stderr and self.returncode = 1
WorkerComplete ==
  /\ thread_job.worker \in {"returned", "raised"}
  /\ IF thread_job.worker = "returned"
       THEN /\ thread_job' = [thread_job EXCEPT !.returncode = PyInt(<<"0">>),
                                                !.worker = "finally"]
            /\ UNCHANGED pipes
       ELSE IF thread_job.stderr = None
         THEN /\ thread_job' = [thread_job EXCEPT !.uncaught = "AttributeError",
                                                  !.worker = "finally"]
              /\ UNCHANGED pipes
         ELSE \E wrote \in {Write(pipes, thread_job.stderr, thread_job.message)} :
                /\ pipes' = wrote.pipes
                /\ thread_job' =
                     IF wrote.left > 0
                       THEN [thread_job EXCEPT !.left = wrote.left, !.worker = "blocked"]
                       ELSE [thread_job EXCEPT !.returncode = PyInt(<<"1">>),
                                               !.worker = "finally"]
  /\ UNCHANGED <<caller, astVars, shellVars, commandVars, pipelineVars>>

\* the finally clause of _run_wrapper, after which the thread is dead
WorkerFinally ==
  /\ thread_job.worker = "finally"
  /\ \E closed \in {Finally(pipes, thread_job)} :
       /\ pipes' = closed.pipes
       /\ thread_job' = [thread_job EXCEPT
            !.worker = "dead",
            !.uncaught = IF closed.error # "" THEN closed.error ELSE @]
  /\ UNCHANGED <<caller, astVars, shellVars, commandVars, pipelineVars>>

\* job.communicate(): wait() returns once the thread is dead, then one read
\* of stdout and one of stderr
Communicate ==
  /\ caller.pc \in {"created", "polled"}
  /\ thread_job.worker = "dead"
  /\ \E got \in {ReadBoth(pipes, thread_job)} :
       /\ pipes' = got.pipes
       /\ caller' = IF got.blocked THEN [pc |-> "blocked"]
                    ELSE [pc |-> "communicated", stdout_data |-> got.stdout_data,
                          stderr_data |-> got.stderr_data]
  /\ UNCHANGED <<thread_job, astVars, shellVars, commandVars, pipelineVars>>

\* job.poll() by the creator, at any moment before it communicates
PollCall ==
  /\ caller.pc \in {"created", "polled"}
  /\ \E polled \in {Poll(thread_job)} :
       /\ thread_job' = polled.job
       /\ caller' = [pc |-> "polled", result |-> polled.result,
                     finished |-> thread_job.worker = "dead"]
  /\ UNCHANGED <<pipes, astVars, shellVars, commandVars, pipelineVars>>

\* after communicate() the caller reads the read end of a pipe the job owns
ReadAfterCommunicate ==
  /\ caller.pc = "communicated"
  /\ \E name \in {"stdout", "stderr"} :
       /\ thread_job[name].dest = "JobIO"
       /\ \E got \in {Read(pipes, thread_job[name].id)} :
            /\ pipes' = got.pipes
            /\ caller' = IF got.blocked THEN [pc |-> "blocked"]
                         ELSE [pc |-> "read", stream |-> name, data |-> got.data,
                               stdout_data |-> caller.stdout_data,
                               stderr_data |-> caller.stderr_data]
  /\ UNCHANGED <<thread_job, astVars, shellVars, commandVars, pipelineVars>>

JobNext ==
  \/ JobCreate
  \/ WorkerCall
  \/ WorkerComplete
  \/ WorkerFinally
  \/ Communicate
  \/ PollCall
  \/ ReadAfterCommunicate

SpecJob == JobInit /\ [][JobNext]_vars

----------------------------------------------------------------------------
(* Claims about the streams of a job *)

\* the pipes the job owns: its stdout and its stderr where they are JobIO
OwnedPipes ==
  {thread_job[name].id : name \in {n \in {"stdout", "stderr"} : thread_job[n].dest = "JobIO"}}

\* C9: once communicate() has returned on a job whose stdout is a pipe of
\* its own, the write ends of the pipes the job owns are closed, and a read
\* of the paired read end gives nothing (end of file), whatever amount the
\* job wrote
C9_DrainedAfterCommunicate ==
  (caller.pc \in {"communicated", "read"} /\ thread_job.stdout.dest = "JobIO") =>
    /\ \A id \in OwnedPipes : ~pipes[id].w_open
    /\ caller.pc = "read" => caller.data = 0

\* C10: once the worker is dead, whether the callable returned or raised,
\* the write end of every pipe the job owns as stdout or stderr is closed
C10_WriteEndsClosed ==
  thread_job.worker = "dead" => \A id \in OwnedPipes : ~pipes[id].w_open

\* C11: when the callable raised and the worker is dead, the job has failed:
\* its returncode is 1, which _run_wrapper records only after it wrote the
\* message to the job's stderr; this for every stderr the job was created
\* with
C11_ExceptionCaptured ==
  (thread_job.worker = "dead" /\ thread_job.raises) =>
    thread_job.returncode = PyInt(<<"1">>)

\* C12: poll() on a job whose worker is dead returns the returncode the job
\* has recorded, on every call, and poll() on a job still running returns
\* nothing
C12_PollReturnsResult ==
  caller.pc = "polled" =>
    IF caller.finished
      THEN caller.result # None /\ caller.result = thread_job.returncode
      ELSE caller.result = None

\* what the job wrote to the pipe that is its stdout, and to the pipe that
\* is its stderr
WrittenToStdout == thread_job.output

WrittenToStderr == IF thread_job.raises THEN thread_job.message ELSE 0

\* C13: communicate() returns all the job wrote to its stdout pipe and all
\* it wrote to its stderr pipe, whatever the length
C13_CommunicateReturnsAll ==
  (caller.pc \in {"communicated", "read"} /\ thread_job.stderr # thread_job.stdout) =>
    /\ thread_job.stdout.dest = "JobIO" => caller.stdout_data = WrittenToStdout
    /\ thread_job.stderr.dest = "JobIO" => caller.stderr_data = WrittenToStderr

----------------------------------------------------------------------------
(* shellhost_shell.py: execute_ast and the loop of Shell.open *)

\* the names Shell.commands holds: the builtin echo, and the commands cmd
\* and two that the host registered with add_command
Commands ==
  {<<"_", "_", "e", "c", "h", "o", "_", "_">>, <<"c", "m", "d">>, <<"t", "w", "o">>}

\* the Command registered under a name and the positional parameters of its
\* function: __echo__ with add_arg('user-input', nargs='*') and _echo(*args),
\* cmd with one positional and a function of one parameter, two with the
\* positionals a (dtype int) and b and a function of two parameters
Registered(name) ==
  IF name = <<"c", "m", "d">>
    THEN [command |-> AddArg(NewCommand, <<"n", "a", "m", "e">>, None, None, None, None,
                             FALSE).command,
          parameters |-> Nargs(1)]
  ELSE IF name = <<"t", "w", "o">>
    THEN [command |-> AddArg(AddArg(NewCommand, <<"a">>, None, IntType, None, None,
                                    FALSE).command,
                             <<"b">>, None, None, None, None, FALSE).command,
          parameters |-> Nargs(2)]
  ELSE [command |-> AddArg(NewCommand,
                           <<"u", "s", "e", "r", "-", "i", "n", "p", "u", "t">>,
                           Star, None, None, None, FALSE).command,
        parameters |-> Star]

\* the executables subprocess.Popen finds
Executables == {<<"e", "c", "h", "o">>, <<"c", "a", "l">>}

\* what an executable prints: echo its arguments, a space between them, and
\* a newline; cal lines of which the first begins with a blank
PopenOutput(current_args) ==
  IF current_args[1] = <<"c", "a", "l">>
    THEN <<" ", "N", "\n", "1", "\n">>
    ELSE Join(Tail(current_args), <<" ">>) \o <<"\n">>

\* no stream passed to execute_ast: stdin=None, stdout=None, stderr=None
NoOverride == [stdin |-> None, stdout |-> None, stderr |-> None]

\* self.func(*p_args, **o_args) binds: no function of the model declares a
\* keyword, and a function of n parameters takes n positional values
Accepts(parameters, p_args, o_args) ==
  /\ DOMAIN o_args = {}
  /\ parameters = Star \/ Len(p_args) = parameters.n

\* the rest of Command.__call__ once args[0] is taken off: parse, then
\* self.func(*p_args, **o_args), whose exception becomes an ArgumentError:
\* [error, received]
CallParsed(registered, args) ==
  CHOOSE r \in
    {IF parsed.error # ""
       THEN [error |-> parsed.error, received |-> None]
       ELSE IF Accepts(registered.parameters,
                       IF parsed.positional = None THEN <<>> ELSE parsed.positional.list,
                       IF parsed.optional = None THEN <<>> ELSE parsed.optional.dict)
         THEN [error |-> "",
               received |-> IF parsed.positional = None THEN PyList(<<>>)
                            ELSE parsed.positional]
         ELSE [error |-> "ArgumentError", received |-> None] :
     parsed \in {Parse(registered.command, args)}} : TRUE

\* Command.__call__(*args): args[0] is taken as the command name, the rest
\* is parsed and the function is called with what parse returned:
\* [error, received]; received is the positional values the function got
Call(registered, args) ==
  IF args = <<>>
    THEN [error |-> "IndexError", received |-> None]
    ELSE CallParsed(registered, Tail(args))

\* stdin_data of _run_wrapper: self.args, or, when self.stdin is neither
\* None nor sys.__stdin__, what self.stdin.read() gives, split into tokens;
\* a pipe gives what the job started with its write end printed, a pipe
\* with no such job gives nothing while its write end is open, a file of
\* the model is empty, a string has no read: [error, data]
StdinData(args, stdin, started) ==
  IF stdin = None \/ stdin = SysStdin THEN [error |-> "", data |-> args]
  ELSE IF stdin.dest = "JobIO"
    THEN IF \E k \in 1..Len(started) : started[k].stdout = stdin
           THEN [error |-> "",
                 data |-> Tokenize(started[CHOOSE k \in 1..Len(started) :
                                             started[k].stdout = stdin].output)]
           ELSE [error |-> "blocked", data |-> <<>>]
  ELSE IF stdin.dest = "file" THEN [error |-> "", data |-> <<>>]
  ELSE [error |-> "AttributeError", data |-> <<>>]

\* a mutant of Returncode: the except clause records nothing
ReturncodeUnrecorded(error, stderr) ==
  IF error = "" THEN PyInt(<<"0">>) ELSE None

\* self.returncode once _run_wrapper is over: 0 when the call returned; when
\* it raised, 1 after the message went to self.stderr, and still None when
\* self.stderr is None, whose write raises in the except clause
Returncode(error, stderr) ==
  IF error = "" THEN PyInt(<<"0">>)
  ELSE IF error = "blocked" \/ stderr = None THEN None
  ELSE PyInt(<<"1">>)

\* Job._run_wrapper on a registered command: [error, received, output,
\* returncode]; of the functions of the model only _echo prints: its
\* arguments, a space between them, and a newline
RunWrapper(name, args, stdin, stderr, started) ==
  CHOOSE r \in
    {[error |-> called.error,
      received |-> called.received,
      output |-> IF called.error = "" /\ name = <<"_", "_", "e", "c", "h", "o", "_", "_">>
                   THEN Join([k \in 1..Len(called.received.list) |->
                                called.received.list[k].str], <<" ">>) \o <<"\n">>
                   ELSE <<>>,
      returncode |-> Returncode(called.error, stderr)] :
     called \in {IF read.error # ""
                   THEN [error |-> read.error, received |-> None]
                   ELSE Call(Registered(name), read.data) :
                 read \in {StdinData(args, stdin, started)}}} : TRUE

\* Job(func, args=current_args[1:], ...) and subprocess.Popen(current_args, ...)
\* with what the job does once started: an executable prints and exits
\* with 0
StartJob(kind, current_args, stdin, stdout, stderr, started) ==
  CHOOSE r \in
    {[kind |-> kind, name |-> current_args[1], args |-> Tail(current_args),
      stdin |-> stdin, stdout |-> stdout, stderr |-> stderr,
      error |-> ran.error, received |-> ran.received, output |-> ran.output,
      returncode |-> ran.returncode] :
     ran \in {IF kind = "Popen"
                THEN [error |-> "", received |-> None,
                      output |-> PopenOutput(current_args),
                      returncode |-> PyInt(<<"0">>)]
                ELSE RunWrapper(current_args[1], Tail(current_args), stdin, stderr,
                                started)}} : TRUE

\* what a started job writes to its stdout
JobOutput(job) == job.output

\* str(final_process.returncode)
ReturnCode(job) ==
  IF job.returncode = None THEN <<"N", "o", "n", "e">> ELSE job.returncode.int

\* the state execute_ast works on
ExecInit(table) ==
  [variables |-> table, dispatched |-> <<>>, error |-> "", next_io |-> 0]

RECURSIVE ExecuteAst(_, _, _)
RECURSIVE ExecuteNodes(_, _, _, _, _)
RECURSIVE ExecuteNode(_, _, _)
RECURSIVE ExpandCommandSubstitutions(_, _, _, _)

\* the part of an iteration of execute_ast after the expansions: the streams
\* are resolved and the job is started: [st, job, returned]
Dispatch(node, override, expanded) ==
  LET current_args == expanded.args
      actual_stdin == IF override.stdin # None THEN override.stdin ELSE node.stdin
      actual_stdout == IF override.stdout # None THEN override.stdout ELSE node.stdout
      actual_stderr == IF override.stderr # None THEN override.stderr ELSE node.stderr
      kind == IF current_args[1] \in Commands THEN "Job" ELSE "Popen"
      job == StartJob(kind, current_args, actual_stdin, actual_stdout, actual_stderr,
                      expanded.st.dispatched)
  IN IF expanded.st.error # ""
       THEN [st |-> expanded.st, job |-> None, returned |-> TRUE]
       ELSE IF current_args[1] \notin Commands \cup Executables
         THEN [st |-> expanded.st, job |-> None, returned |-> TRUE]
         ELSE [st |-> [expanded.st EXCEPT !.dispatched = Append(@, job)],
               job |-> job, returned |-> FALSE]

\* one iteration of the loop of execute_ast: [st, job, returned]
ExecuteNode(node, override, st) ==
  IF node.kind = "Subshell"
    THEN CHOOSE r \in {[st |-> sub.st, job |-> sub.job, returned |-> sub.st.error # ""] :
                       sub \in {ExecuteAst(node.children, NoOverride, st)}} : TRUE
  ELSE IF node.arguments[1].kind # "Literal"
    THEN [st |-> [st EXCEPT !.error = "TypeError"], job |-> None, returned |-> TRUE]
  ELSE
    CHOOSE r \in
      {IF assigned.handled
         THEN [st |-> [st EXCEPT !.variables = assigned.variables],
               job |-> None, returned |-> TRUE]
         ELSE CHOOSE d \in
                {Dispatch(node, override, expanded) :
                   expanded \in {ExpandCommandSubstitutions(
                                   ExpandVariables(node.arguments, st.variables),
                                   1, <<>>, st)}} : TRUE :
       assigned \in {HandleVariableAssignment(node.arguments[1].text, st.variables)}} : TRUE

\* the loop of execute_ast from node k on: [st, job]
ExecuteNodes(ns, k, override, st, this_job) ==
  IF k > Len(ns) THEN [st |-> st, job |-> this_job]
  ELSE CHOOSE r \in
         {IF step.returned
            THEN [st |-> step.st, job |-> None]
            ELSE ExecuteNodes(ns, k + 1, override, step.st, step.job) :
          step \in {ExecuteNode(ns[k], override, st)}} : TRUE

\* Shell.execute_ast: [st, job]
ExecuteAst(ns, override, st) ==
  IF ns = <<>> THEN [st |-> st, job |-> None]
  ELSE ExecuteNodes(ns, 1, override, st, None)

\* what communicate() gives for the job of a substitution, stripped, appended
\* to the arguments: [st, args]
Capture(run, output_buffer, new_args) ==
  IF run.st.error # ""
    THEN [st |-> run.st, args |-> new_args]
    ELSE IF run.job = None
      THEN [st |-> [run.st EXCEPT !.error = "AttributeError"], args |-> new_args]
      ELSE IF run.job.stdout # output_buffer
        THEN [st |-> [run.st EXCEPT !.error = "blocked"], args |-> new_args]
        ELSE [st |-> run.st, args |-> Append(new_args, Strip(JobOutput(run.job)))]

\* the loop of expand_command_substitutions from argument k on: [st, args]
ExpandCommandSubstitutions(args, k, new_args, st) ==
  IF k > Len(args) \/ st.error # ""
    THEN [st |-> st, args |-> new_args]
    ELSE IF args[k].kind # "CommandSubstitution"
      THEN ExpandCommandSubstitutions(args, k + 1, Append(new_args, args[k].text), st)
      ELSE IF args[k].inner_ast = <<>>
        THEN [st |-> [st EXCEPT !.error = "IndexError"], args |-> new_args]
        ELSE
          CHOOSE r \in
            {ExpandCommandSubstitutions(args, k + 1, got.args, got.st) :
             got \in {Capture(run, JobIO(st.next_io), new_args) :
                      run \in {ExecuteAst(
                                 [args[k].inner_ast EXCEPT ![Len(args[k].inner_ast)] =
                                    [@ EXCEPT !.stdout = JobIO(st.next_io)]],
                                 NoOverride, [st EXCEPT !.next_io = @ + 1])}}} : TRUE

\* the outcome of one line: [variables, dispatched, outcome]
Outcome(run) ==
  IF run.st.error # ""
    THEN [variables |-> run.st.variables, dispatched |-> run.st.dispatched,
          outcome |-> run.st.error]
    ELSE IF run.job = None
      THEN [variables |-> run.st.variables, dispatched |-> run.st.dispatched,
            outcome |-> "no job"]
    ELSE IF run.job.error = "blocked"
      THEN [variables |-> run.st.variables, dispatched |-> run.st.dispatched,
            outcome |-> "blocked"]
      ELSE [variables |-> Put(run.st.variables, <<"?">>, ReturnCode(run.job)),
            dispatched |-> run.st.dispatched, outcome |-> "job"]

\* the line's tokens built, linked and executed
RunTokens(toks, table) ==
  CHOOSE r \in
    {IF built.error # ""
       THEN [variables |-> table, dispatched |-> <<>>, outcome |-> "SyntaxError"]
       ELSE CHOOSE o \in
              {Outcome(run) :
               run \in {ExecuteAst(LinkPipes(built.nodes, 0).nodes,
                                   NoOverride, ExecInit(table))}} : TRUE :
     built \in {BuildAst(toks)}} : TRUE

\* the body of the loop of Shell.open on one line: [variables, dispatched, outcome]
OpenIteration(line, table) ==
  CHOOSE r \in
    {IF split = <<>>
       THEN [variables |-> table, dispatched |-> <<>>, outcome |-> "empty"]
       ELSE RunTokens(ReassembleSubstitutions(split), table) :
     split \in {Tokenize(line)}} : TRUE

----------------------------------------------------------------------------
(* The shell reads lines *)

\* the names tried in assignments and references
Names == {<<"A">>, <<"A", "B">>, <<"1", "A">>, <<OtherLetter>>}

Values == {<<"x">>, <<"y">>}

\* the line NAME=value
AssignmentLine(name, value) == name \o <<"=">> \o value

\* the line `C=$A`
CopyLine == AssignmentLine(<<"C">>, <<"$", "A">>)

\* the lines `C=y cmd` and `echo | C=y`: an assignment as the first word of
\* a command with arguments and of a stage of a pipeline
AssignmentWordLines ==
  {<<"C", "=", "y", " ", "c", "m", "d">>,
   <<"e", "c", "h", "o", " ", "|", " ", "C", "=", "y">>}

\* the line `cmd $NAME`
ReferenceLine(name) == <<"c", "m", "d", " ", "$">> \o name

\* the line `cmd $(echo hi)`
SubstitutionLine ==
  <<"c", "m", "d", " ", "$", "(", "e", "c", "h", "o", " ", "h", "i", ")">>

\* the line `cmd $(name)`
CapturedLine(name) == <<"c", "m", "d", " ", "$", "(">> \o name \o <<")">>

\* lines with a substitution in one word, a subshell, a pipeline, a lone
\* substitution, an unbalanced line and an empty one
OtherLines ==
  {<<"c", "m", "d", " ", "$", "(", "e", "c", "h", "o", ")">>,
   <<"(", " ", "c", "m", "d", " ", "$", "A", " ", ")">>,
   <<"e", "c", "h", "o", " ", "|", " ", "c", "m", "d">>,
   <<"$", "(", "e", "c", "h", "o", ")">>,
   <<"c", "m", "d", " ", ")">>,
   <<" ">>}

\* the line `cmd | cmd < f`: the second stage reads from a file
RedirectedPipeLine ==
  <<"c", "m", "d", " ", "|", " ", "c", "m", "d", " ", "<", " ", "f">>

\* the lines `| cmd` and `cmd >`: a pipe with nothing before it and a
\* redirection with no target
SyntaxErrorLines == {<<"|", " ", "c", "m", "d">>, <<"c", "m", "d", " ", ">">>}

\* the line `x | cmd`: x is neither registered nor an executable
NotFoundLine == <<"x", " ", "|", " ", "c", "m", "d">>

\* the line `( cmd ) > f`
SubshellLine == <<"(", " ", "c", "m", "d", " ", ")", " ", ">", " ", "f">>

\* the line `cmd x`
CommandLine == <<"c", "m", "d", " ", "x">>

\* lines that call two: with one token too few, with a first value that is
\* no integer, with an option two does not declare, and the first again
\* with stderr sent to a file
BindingErrorLines ==
  {<<"t", "w", "o", " ", "0", " ", "1">>,
   <<"t", "w", "o", " ", "0", " ", "q", " ", "w">>,
   <<"t", "w", "o", " ", "0", " ", "1", " ", "w", " ", "-", "z">>,
   <<"t", "w", "o", " ", "0", " ", "1", " ", "2", ">", " ", "g">>}

\* the line `two 0 1 w`
BoundLine == <<"t", "w", "o", " ", "0", " ", "1", " ", "w">>

\* the process environment copied at start, and the entries `?` and `!`
InitialVariables ==
  [k \in {<<"?">>, <<"!">>} |-> IF k = <<"?">> THEN <<"0">> ELSE <<"7">>]

\* the session goes on after the last line
SessionOpen == outcome \in {"started", "empty", "no job", "job"}

ShellInit ==
  /\ variables = InitialVariables
  /\ history = <<>>
  /\ dispatched = <<>>
  /\ outcome = "started"
  /\ AstIdle
  /\ CommandIdle
  /\ JobIdle
  /\ PipelineIdle

\* one iteration of the loop of Shell.open on the line read
ReadLine(line) ==
  /\ Len(history) < MaxLines
  /\ \E done \in {OpenIteration(line, variables)} :
        /\ variables' = done.variables
        /\ dispatched' = done.dispatched
        /\ outcome' = done.outcome
  /\ history' = Append(history, line)
  /\ UNCHANGED <<astVars, commandVars, jobVars, pipelineVars>>

\* the user types NAME=value, the value a word or a reference
ReadAssignmentLine ==
  /\ SessionOpen
  /\ \E line \in {AssignmentLine(name, value) : name \in Names, value \in Values}
                  \cup {CopyLine} : ReadLine(line)

\* the user types cmd $NAME
ReadReferenceLine ==
  /\ SessionOpen
  /\ \E name \in Names \cup {<<"C">>} : ReadLine(ReferenceLine(name))

\* the user types cmd $(echo hi) or cmd $(cal)
ReadSubstitutionLine ==
  /\ SessionOpen
  /\ \E line \in {SubstitutionLine, CapturedLine(<<"c", "a", "l">>)} : ReadLine(line)

\* the user types another line
ReadOtherLine ==
  /\ SessionOpen
  /\ \E line \in OtherLines \cup AssignmentWordLines \cup {RedirectedPipeLine} :
       ReadLine(line)

\* the user types a line build_ast rejects
ReadSyntaxErrorLine ==
  /\ SessionOpen
  /\ \E line \in SyntaxErrorLines : ReadLine(line)

\* the user types a line that names registered commands and others
ReadCommandLine ==
  /\ SessionOpen
  /\ \E line \in {NotFoundLine, SubshellLine, CommandLine, BoundLine} : ReadLine(line)

\* the user types a line whose arguments two cannot bind
ReadBindingErrorLine ==
  /\ SessionOpen
  /\ \E line \in BindingErrorLines : ReadLine(line)

ShellNext ==
  \/ ReadAssignmentLine
  \/ ReadReferenceLine
  \/ ReadSubstitutionLine
  \/ ReadOtherLine
  \/ ReadSyntaxErrorLine
  \/ ReadCommandLine
  \/ ReadBindingErrorLine

SpecShell == ShellInit /\ [][ShellNext]_vars

----------------------------------------------------------------------------
(* Claims about variables and command substitution *)

\* the values the line at position k of h assigns to name
AssignedAt(h, k, name) == {value \in Values : h[k] = AssignmentLine(name, value)}

\* the positions of h before the last at which name is assigned
AssignmentsBefore(h, name) ==
  {k \in 1..(Len(h) - 1) : AssignedAt(h, k, name) # {}}

\* the value of the latest assignment to name before the last line of h
LatestValue(h, name) ==
  LET last == CHOOSE k \in AssignmentsBefore(h, name) :
                \A j \in AssignmentsBefore(h, name) : j <= k
  IN CHOOSE value \in AssignedAt(h, last, name) : TRUE

\* C5: a line that is the single word NAME=value, NAME an identifier, starts
\* no job and stores value under NAME, and a later line `cmd $NAME` is
\* dispatched with the value of the latest assignment to NAME as its argument
C5_AssignmentThenReference ==
  \A name \in Names :
    (history # <<>> /\ IsIdentifier(name)) =>
      /\ \A value \in Values :
           Last(history) = AssignmentLine(name, value) =>
             /\ outcome = "no job"
             /\ dispatched = <<>>
             /\ name \in DOMAIN variables
             /\ variables[name] = value
      /\ (Last(history) = ReferenceLine(name) /\ AssignmentsBefore(history, name) # {}) =>
           /\ outcome = "job"
           /\ Len(dispatched) = 1
           /\ dispatched[1].args = <<LatestValue(history, name)>>

\* C6: the line `cmd $(echo hi)` dispatches cmd with the one argument hi, the
\* output of the inner echo
C6_SubstitutionResolved ==
  (history # <<>> /\ Last(history) = SubstitutionLine) =>
    /\ outcome = "job"
    /\ dispatched # <<>>
    /\ Last(dispatched).name = <<"c", "m", "d">>
    /\ Last(dispatched).args = << <<"h", "i">> >>

----------------------------------------------------------------------------
(* Claims about errors and dispatch in the main loop *)

\* C14: a line whose tokens build_ast rejects with a SyntaxError starts no
\* job and leaves the session open for the next line
C14_SyntaxErrorAbortsLine ==
  (history # <<>> /\
   BuildAst(ReassembleSubstitutions(Tokenize(Last(history)))).error # "") =>
    /\ SessionOpen
    /\ dispatched = <<>>

\* C15: when parse raises a ParsingError in the job of a registered command
\* (too few tokens, an option that is not declared, a value dtype rejects),
\* the error stays in the job, which ends with returncode 1, and the
\* session is open for the next line
C15_BindingErrorContained ==
  \A k \in 1..Len(dispatched) :
    (dispatched[k].kind = "Job" /\ dispatched[k].error = "ParsingError") =>
      /\ SessionOpen
      /\ dispatched[k].returncode = PyInt(<<"1">>)
      /\ dispatched[k].received = None

C15_Witness ==
  /\ Len(history) = 2
  /\ history[1] \in BindingErrorLines
  /\ history[2] \in BindingErrorLines
  /\ history[2] # history[1]
  /\ Len(dispatched) = 1
  /\ dispatched[1].error = "ParsingError"
  /\ variables[<<"?">>] = <<"1">>

\* C16: on the line `x | cmd`, x being no command and no executable, the
\* session stays open and the stage after x, cmd, is still dispatched
C16_NotFoundContinuesLine ==
  (history # <<>> /\ Last(history) = NotFoundLine) =>
    /\ SessionOpen
    /\ \E k \in 1..Len(dispatched) : dispatched[k].name = <<"c", "m", "d">>

\* C17: on the line `( cmd ) > f` the job of cmd, the child of the
\* subshell, is started with the subshell's stdout, the file f
C17_SubshellStreamsPassedDown ==
  (history # <<>> /\ Last(history) = SubshellLine) =>
    /\ outcome = "job"
    /\ Len(dispatched) = 1
    /\ dispatched[1].name = <<"c", "m", "d">>
    /\ dispatched[1].stdout = File(<<"f">>, "w")

\* C18: on the line `cmd x`, cmd a registered command with one positional,
\* the function of cmd is called with the one value x
C18_ArgumentsReachCallable ==
  (history # <<>> /\ Last(history) = CommandLine) =>
    /\ Len(dispatched) = 1
    /\ dispatched[1].name = <<"c", "m", "d">>
    /\ dispatched[1].received = PyList(<<PyStr(<<"x">>)>>)

\* C24: the argument put in place of a command substitution is what the
\* inner pipeline printed with the whitespace at its end removed and nothing
\* else: blanks at its beginning and newlines inside it are kept
C24_OnlyTrailingWhitespaceRemoved ==
  \A name \in Executables :
    (/\ history # <<>>
     /\ Last(history) = CapturedLine(name)
     /\ outcome = "job") =>
      Last(dispatched).args = <<RStrip(PopenOutput(<<name>>))>>

\* C25: the line `C=$A` read after A was assigned a value is tested as an
\* assignment with `$A` expanded: it starts no job and stores the value of A
\* under C, so that the next line `cmd $C` is dispatched with that value
C25_AssignmentStoresExpandedValue ==
  /\ (/\ history # <<>>
      /\ Last(history) = CopyLine
      /\ AssignmentsBefore(history, <<"A">>) # {}) =>
       /\ outcome = "no job"
       /\ <<"C">> \in DOMAIN variables
       /\ variables[<<"C">>] = LatestValue(history, <<"A">>)
  /\ (/\ Len(history) >= 2
      /\ Last(history) = ReferenceLine(<<"C">>)
      /\ Last(Front(history)) = CopyLine
      /\ AssignmentsBefore(Front(history), <<"A">>) # {}) =>
       /\ outcome = "job"
       /\ Len(dispatched) = 1
       /\ dispatched[1].args = <<LatestValue(Front(history), <<"A">>)>>

\* the whole line is one word NAME=value, NAME an identifier
FullLineAssignment(line) ==
  /\ Len(Tokenize(line)) = 1
  /\ \E k \in 1..Len(Tokenize(line)[1]) :
       /\ Tokenize(line)[1][k] = "="
       /\ IsIdentifier(SubSeq(Tokenize(line)[1], 1, k - 1))

\* C28: an iteration of the main loop on a line that is not as a whole a
\* NAME=value assignment (a command with arguments, a pipeline, a subshell,
\* a substitution) leaves every variable other than `?` as it was
C28_OnlyAssignmentLinesChangeVariables ==
  [][(history' # history /\ ~FullLineAssignment(Last(history'))) =>
       \A name \in (DOMAIN variables \cup DOMAIN variables') \ {<<"?">>} :
         /\ name \in DOMAIN variables
         /\ name \in DOMAIN variables'
         /\ variables'[name] = variables[name]]_vars

\* C29: a token list build_ast returns a tree for has no dangling pipe: every
\* `|` has a stage before it in its scope (it is neither the first token nor
\* directly after a `(`) and a stage after it (it is not the last token and
\* is followed neither by a `)` nor by another `|`)
C29_DanglingPipeRejected ==
  (/\ phase \in {"built", "linked"}
   /\ \A k \in 1..Len(tokens) : tokens[k] \notin FiveRedirections) =>
    \A k \in 1..Len(tokens) :
      tokens[k] = BAR =>
        /\ k > 1
        /\ tokens[k - 1] # LPAREN
        /\ k < Len(tokens)
        /\ tokens[k + 1] \notin {RPAREN, BAR}

RECURSIVE Merged(_, _, _, _, _)
\* the tokens with each `$( ... )` group joined into one token, a space
\* between its parts: a group begins at a token that holds `$(` and ends at
\* the token whose `)` closes the last `$(` still open; the tokens outside
\* a group are kept as they are
Merged(toks, k, new_tokens, buffer, depth) ==
  IF k > Len(toks) THEN new_tokens \o buffer
  ELSE
    LET inside == depth + Count(toks[k], <<"$", "(">>)
        left == inside - Count(toks[k], <<")">>)
    IN IF inside = 0
         THEN Merged(toks, k + 1, Append(new_tokens, toks[k]), <<>>, 0)
         ELSE IF left > 0
           THEN Merged(toks, k + 1, new_tokens, Append(buffer, toks[k]), left)
           ELSE Merged(toks, k + 1,
                       Append(new_tokens, Join(Append(buffer, toks[k]), <<" ">>)), <<>>, 0)

\* C30: reassemble_substitutions gives the tokens of the line with every
\* `$( ... )` group that was split on spaces joined again into one token,
\* and every token outside such a group unchanged and in its place
C30_SubstitutionTokensMerged ==
  history # <<>> =>
    ReassembleSubstitutions(Tokenize(Last(history))) =
      Merged(Tokenize(Last(history)), 1, <<>>, <<>>, 0)

----------------------------------------------------------------------------
(* shellhost_io.py and shellhost_shell.py: the jobs of one line run as threads *)

\* the lines `__echo__ a b | __echo__`, `__echo__ x a b | __echo__` and
\* `__echo__ a b | __echo__ > f`
PipelineLines ==
  {<<"_", "_", "e", "c", "h", "o", "_", "_", " ", "a", " ", "b", " ", "|", " ",
     "_", "_", "e", "c", "h", "o", "_", "_">>,
   <<"_", "_", "e", "c", "h", "o", "_", "_", " ", "x", " ", "a", " ", "b", " ", "|", " ",
     "_", "_", "e", "c", "h", "o", "_", "_">>,
   <<"_", "_", "e", "c", "h", "o", "_", "_", " ", "a", " ", "b", " ", "|", " ",
     "_", "_", "e", "c", "h", "o", "_", "_", " ", ">", " ", "f">>}

\* ast_root of Shell.open: [nodes, next]
AstRoot(line) == LinkPipes(BuildAst(ReassembleSubstitutions(Tokenize(line))).nodes, 0)

\* JobIO(): both descriptors open, nothing written; closes counts the calls
\* of os.close on each descriptor
NewJobIO ==
  [w |-> "open", r |-> "open", buffer |-> <<>>, closes |-> [w |-> 0, r |-> 0]]

\* print(*args): the strings written one after the other to the file print
\* took from sys.stdout, the values with a space between them and a newline
Pieces(values) ==
  [i \in 1..(IF values = <<>> THEN 1 ELSE 2 * Len(values)) |->
     IF i = 2 * Len(values) \/ values = <<>> THEN <<"\n">>
     ELSE IF i % 2 = 1 THEN values[(i + 1) \div 2].str
     ELSE <<" ">>]

\* Job.__init__ called by execute_ast for a node: the attributes of the job
\* and its thread, started and not yet in _run_wrapper
NewStage(node) ==
  [pc |-> "enter",
   name |-> node.arguments[1].text,
   args |-> [k \in 1..(Len(node.arguments) - 1) |-> node.arguments[k + 1].text],
   stdin |-> node.stdin, stdout |-> node.stdout, stderr |-> node.stderr,
   original |-> None, stdin_data |-> <<>>, file |-> None, pieces |-> <<>>,
   returncode |-> None, uncaught |-> ""]

PipelineInit ==
  /\ \E line \in PipelineLines :
       \E ast_root \in {AstRoot(line)} :
         /\ main = [pc |-> "execute", ast_root |-> ast_root.nodes, node |-> 1]
         /\ ends = [id \in 0..(ast_root.next - 1) |-> NewJobIO]
  /\ ambient = [stdin |-> SysStdin, stdout |-> SysStdout, stderr |-> SysStderr]
  /\ stage = <<>>
  /\ written = <<>>
  /\ AstIdle
  /\ ShellIdle
  /\ CommandIdle
  /\ JobIdle

\* an iteration of the loop of execute_ast on a Command node of a registered
\* command: the Job is created and its thread started
StartStage ==
  /\ main.pc = "execute"
  /\ stage' = Append(stage, NewStage(main.ast_root[main.node]))
  /\ main' = IF main.node = Len(main.ast_root)
               THEN [main EXCEPT !.pc = "communicate"]
               ELSE [main EXCEPT !.node = @ + 1]
  /\ UNCHANGED <<ambient, written, ends, astVars, shellVars, commandVars, jobVars>>

\* IOManager.__enter__ in the thread of job j
Enter ==
  \E j \in 1..Len(stage) :
    /\ stage[j].pc = "enter"
    /\ stage' = [stage EXCEPT ![j].original = ambient, ![j].pc = "read"]
    /\ ambient' = [stdin |-> stage[j].stdin, stdout |-> stage[j].stdout,
                   stderr |-> stage[j].stderr]
    /\ UNCHANGED <<main, written, ends, astVars, shellVars, commandVars, jobVars>>

\* stdin_data of _run_wrapper: self.args when self.stdin is sys.__stdin__,
\* else the tokens of self.stdin.read(), which waits on a pipe that is empty
\* and whose write end is open
ReadStdin ==
  \E j \in 1..Len(stage) :
    /\ stage[j].pc = "read"
    /\ IF stage[j].stdin.dest # "JobIO"
         THEN /\ stage' = [stage EXCEPT ![j].stdin_data = stage[j].args, ![j].pc = "call"]
              /\ UNCHANGED ends
         ELSE /\ ends[stage[j].stdin.id].buffer # <<>> \/ ends[stage[j].stdin.id].w = "closed"
              /\ stage' = [stage EXCEPT
                             ![j].stdin_data = Tokenize(ends[stage[j].stdin.id].buffer),
                             ![j].pc = "call"]
              /\ ends' = [ends EXCEPT ![stage[j].stdin.id].buffer = <<>>]
    /\ UNCHANGED <<main, ambient, written, astVars, shellVars, commandVars, jobVars>>

\* self._target_func(*stdin_data) up to the print of _echo: Command.__call__
\* binds the arguments, and print takes its file from sys.stdout; an
\* exception goes to the except clause of _run_wrapper
CallFunc ==
  \E j \in 1..Len(stage) :
    /\ stage[j].pc = "call"
    /\ \E called \in {Call(Registered(stage[j].name), stage[j].stdin_data)} :
         stage' = IF called.error # ""
                    THEN [stage EXCEPT ![j].pc = "except"]
                    ELSE [stage EXCEPT ![j].file = ambient.stdout,
                                       ![j].pieces = Pieces(called.received.list),
                                       ![j].pc = "print"]
    /\ UNCHANGED <<main, ambient, written, ends, astVars, shellVars, commandVars, jobVars>>

\* one file.write of print, then self.returncode = 0 after the last; a
\* JobIO whose write descriptor is closed raises
WritePiece ==
  \E j \in 1..Len(stage) :
    /\ stage[j].pc = "print"
    /\ IF stage[j].file.dest = "JobIO" /\ ends[stage[j].file.id].w = "closed"
         THEN /\ stage' = [stage EXCEPT ![j].pc = "except"]
              /\ UNCHANGED <<written, ends>>
         ELSE /\ written' = Append(written, [by |-> j, to |-> stage[j].file,
                                             what |-> "print",
                                             data |-> stage[j].pieces[1]])
              /\ ends' = IF stage[j].file.dest = "JobIO"
                           THEN [ends EXCEPT ![stage[j].file.id].buffer =
                                   @ \o stage[j].pieces[1]]
                           ELSE ends
              /\ stage' = IF Len(stage[j].pieces) = 1
                            THEN [stage EXCEPT ![j].pieces = <<>>,
                                               ![j].returncode = PyInt(<<"0">>),
                                               ![j].pc = "exit"]
                            ELSE [stage EXCEPT ![j].pieces = Tail(@)]
    /\ UNCHANGED <<main, ambient, astVars, shellVars, commandVars, jobVars>>

\* the except clause of _run_wrapper: self.stderr.write(...), then
\* self.returncode = 1
Except ==
  \E j \in 1..Len(stage) :
    /\ stage[j].pc = "except"
    /\ written' = Append(written, [by |-> j, to |-> stage[j].stderr, what |-> "message",
                                   data |-> <<"-", "-">>])
    /\ stage' = [stage EXCEPT ![j].returncode = PyInt(<<"1">>), ![j].pc = "exit"]
    /\ UNCHANGED <<main, ambient, ends, astVars, shellVars, commandVars, jobVars>>

\* IOManager.__exit__ in the thread of job j
Exit ==
  \E j \in 1..Len(stage) :
    /\ stage[j].pc = "exit"
    /\ ambient' = stage[j].original
    /\ stage' = [stage EXCEPT ![j].pc = "finally"]
    /\ UNCHANGED <<main, written, ends, astVars, shellVars, commandVars, jobVars>>

\* the finally clause of _run_wrapper: self.stdout._close(self.stdout._w_fd)
\* unless self.stdout is sys.__stdout__, which a file object does not have;
\* self.stderr is sys.__stderr__ on these lines
FinallyClose ==
  \E j \in 1..Len(stage) :
    /\ stage[j].pc = "finally"
    /\ IF stage[j].stdout.dest = "JobIO"
         THEN /\ ends' = [ends EXCEPT ![stage[j].stdout.id].w = "closed",
                                      ![stage[j].stdout.id].closes.w = @ + 1]
              /\ stage' = [stage EXCEPT ![j].pc = "done"]
         ELSE /\ UNCHANGED ends
              /\ stage' = [stage EXCEPT
                             ![j].pc = "done",
                             ![j].uncaught = IF stage[j].stdout.dest = "file"
                                               THEN "AttributeError" ELSE ""]
    /\ UNCHANGED <<main, ambient, written, astVars, shellVars, commandVars, jobVars>>

\* final_process.communicate() in Shell.open: the thread of the last job is
\* joined; its stdout is no pipe, so that nothing is read
FinalCommunicate ==
  /\ main.pc = "communicate"
  /\ Last(stage).pc = "done"
  /\ main' = [main EXCEPT !.pc = "prompt"]
  /\ UNCHANGED <<ambient, stage, written, ends, astVars, shellVars, commandVars, jobVars>>

\* the next line is read and built: ast_root and final_process are bound
\* anew, and the nodes and jobs of this line are referenced by their own
\* threads only
NextLine ==
  /\ main.pc = "prompt"
  /\ main' = [main EXCEPT !.pc = "rebound"]
  /\ UNCHANGED <<ambient, stage, written, ends, astVars, shellVars, commandVars, jobVars>>

\* JobIO.__del__ once nothing references the JobIO objects of the line:
\* close() closes each descriptor that is still set
Release ==
  /\ main.pc = "rebound"
  /\ \A j \in 1..Len(stage) : stage[j].pc = "done"
  /\ ends' = [id \in DOMAIN ends |->
                [w |-> "closed", r |-> "closed", buffer |-> ends[id].buffer,
                 closes |-> [w |-> ends[id].closes.w + (IF ends[id].w = "open" THEN 1 ELSE 0),
                             r |-> ends[id].closes.r + (IF ends[id].r = "open" THEN 1 ELSE 0)]]]
  /\ main' = [main EXCEPT !.pc = "released"]
  /\ UNCHANGED <<ambient, stage, written, astVars, shellVars, commandVars, jobVars>>

PipelineNext ==
  \/ StartStage
  \/ Enter
  \/ ReadStdin
  \/ CallFunc
  \/ WritePiece
  \/ Except
  \/ Exit
  \/ FinallyClose
  \/ FinalCommunicate
  \/ NextLine
  \/ Release

SpecPipeline == PipelineInit /\ [][PipelineNext]_vars

----------------------------------------------------------------------------
(* Claims about the threads of a pipeline *)

\* C26: whatever a callable prints is written to the stdout its own job was
\* created with, and the message of a failed call to that job's stderr, in
\* every interleaving of the threads of the two stages of a pipeline
C26_WritesReachOwnStreams ==
  \A k \in 1..Len(written) :
    written[k].to = IF written[k].what = "print" THEN stage[written[k].by].stdout
                    ELSE stage[written[k].by].stderr

\* every job of the line has been started and its thread has ended
AllStagesDone ==
  /\ main.pc # "execute"
  /\ \A j \in 1..Len(stage) : stage[j].pc = "done"

\* C27: os.close is called once at most on each descriptor of a pipe, and
\* when the threads of the producer and of the consumer have ended both the
\* write end and the read end of the pipe are closed
C27_PipeEndsClosedOnce ==
  \A id \in DOMAIN ends :
    /\ ends[id].closes.w <= 1
    /\ ends[id].closes.r <= 1
    /\ AllStagesDone => ends[id].w = "closed" /\ ends[id].r = "closed"

----------------------------------------------------------------------------
(* Claims about what link_pipes leaves alone and what dispatch receives *)

RECURSIVE OnlyMarkersLinked(_, _)
\* after differs from before only where a node's stdout was the pipe-out
\* marker and its next sibling's stdin the pipe-in marker
OnlyMarkersLinked(before, after) ==
  /\ Len(after) = Len(before)
  /\ \A k \in 1..Len(before) :
       /\ after[k].kind = before[k].kind
       /\ after[k].stderr = before[k].stderr
       /\ before[k].kind = "Command" => after[k].arguments = before[k].arguments
       /\ after[k].stdout # before[k].stdout =>
            /\ before[k].stdout = PIPE_OUT
            /\ k < Len(before)
            /\ before[k + 1].stdin = PIPE_IN
       /\ after[k].stdin # before[k].stdin =>
            /\ before[k].stdin = PIPE_IN
            /\ k > 1
            /\ before[k - 1].stdout = PIPE_OUT
       /\ before[k].kind = "Subshell" =>
            OnlyMarkersLinked(before[k].children, after[k].children)

\* C31: link_pipes changes only a stdout that held the pipe-out marker and a
\* stdin that held the pipe-in marker of an adjacent pair; a File set by a
\* redirection, every stderr, every argument list and the order of the nodes
\* are as build_ast returned them, at the top level and in every Subshell.
C31_LinkingFrame ==
  phase = "linked" => OnlyMarkersLinked(parser.stack[1], nodes)

\* C31 witness: a linked line where a pipe was allocated for a node that also
\* holds a File set by a redirection.
C31_Witness ==
  /\ phase = "linked"
  /\ jobio_count = 1
  /\ \E k \in 1..Len(nodes) :
       /\ nodes[k].stdout.dest = "JobIO"
       /\ nodes[k].stderr.dest = "file"

\* token k is a command word or an argument
IsWordAt(toks, k) ==
  /\ IsStructural(toks, k, RedirectionTokens)
  /\ toks[k] \notin ({LPAREN, RPAREN, BAR} \cup RedirectionTokens)

\* no parenthesis is read in the line
Flat(toks) ==
  \A k \in 1..Len(toks) :
    IsStructural(toks, k, RedirectionTokens) => toks[k] \notin {LPAREN, RPAREN}

RECURSIVE PipePending(_, _)
\* in a flat line, a '|' was read among the first k tokens and no word since
PipePending(toks, k) ==
  IF k = 0 THEN FALSE
  ELSE IF IsStructural(toks, k, RedirectionTokens) /\ toks[k] = BAR THEN TRUE
  ELSE IF IsWordAt(toks, k) THEN FALSE
  ELSE PipePending(toks, k - 1)

RECURSIVE StagesAfter(_, _)
\* in a flat line, the number of stages the first k tokens have started: the
\* first word starts one, and so does the first word after a '|'
StagesAfter(toks, k) ==
  IF k = 0 THEN 0
  ELSE StagesAfter(toks, k - 1)
       + (IF /\ IsWordAt(toks, k)
             /\ (StagesAfter(toks, k - 1) = 0 \/ PipePending(toks, k - 1))
            THEN 1 ELSE 0)

\* the positions of the tokens that write the stdout of stage n: '>' and
\* '>>' (a file) and '|' (a pipe), read while n is the last stage
StdoutWrites(toks, n) ==
  {k \in 1..Len(toks) :
     /\ IsStructural(toks, k, RedirectionTokens)
     /\ toks[k] \in {GT, GTGT, BAR}
     /\ StagesAfter(toks, k - 1) = n}

\* the positions of the '<' tokens read while n is the last stage
StdinRedirections(toks, n) ==
  {k \in 1..Len(toks) :
     /\ IsStructural(toks, k, RedirectionTokens)
     /\ toks[k] = LT
     /\ StagesAfter(toks, k - 1) = n}

Latest(positions) == CHOOSE k \in positions : \A j \in positions : j <= k

\* C32: when a stage's stdout or stdin is written both by a file redirection
\* and by a pipe, the write that comes later in the tokens decides what the
\* stream ends as.  A stdout whose last write is '>' or '>>' ends as that
\* file; one whose last write is '|' ends as what the pipe leaves: the JobIO
\* shared with the next stage, or the marker where the next stage's stdin was
\* redirected or missing.  A stdin given a pipe and then '<' ends as the file.
\* So in `a > f | b` the stdout of a is the pipe to b, and in `a | b < f` the
\* stdin of b is the file f.
C32_LaterWriteWins ==
  (phase = "linked" /\ Flat(tokens)) =>
    \A n \in 1..Len(nodes) :
      LET outs == StdoutWrites(tokens, n)
          ins == StdinRedirections(tokens, n)
      IN /\ ((\E k \in outs : tokens[k] = BAR) /\ (\E k \in outs : tokens[k] # BAR)) =>
              LET k == Latest(outs)
              IN IF tokens[k] = BAR
                   THEN IF n < Len(nodes) /\ StdinRedirections(tokens, n + 1) = {}
                          THEN /\ nodes[n].stdout.dest = "JobIO"
                               /\ nodes[n + 1].stdin = nodes[n].stdout
                          ELSE nodes[n].stdout = PIPE_OUT
                   ELSE nodes[n].stdout =
                          File(tokens[k + 1], IF tokens[k] = GT THEN "w" ELSE "a")
         /\ (n > 1 /\ ins # {}) =>
              nodes[n].stdin = File(tokens[Latest(ins) + 1], "r")

\* C32 witness: the line `a > a | a` linked: the first stage writes to the
\* pipe that the second reads.
C32_Witness ==
  /\ phase = "linked"
  /\ tokens = <<Word, GT, Word, BAR, Word>>
  /\ nodes[1].stdout.dest = "JobIO"
  /\ nodes[2].stdin = nodes[1].stdout

\* C34: pipe markers are resolved before dispatch: no job is created by
\* execute_ast with a stdin that is still the pipe-in marker or a stdout that
\* is still the pipe-out marker.
C34_NoMarkerAtDispatch ==
  \A k \in 1..Len(dispatched) :
    /\ dispatched[k].stdin # PIPE_IN
    /\ dispatched[k].stdout # PIPE_OUT

----------------------------------------------------------------------------
(* Claims about the life of a job *)

\* C33: the returncode of a job is None until its callable has returned or
\* raised; once the worker is dead it is 0 if the callable returned and a
\* nonzero value if it raised, and it stays so whatever poll() and
\* communicate() calls follow.
C33_TerminalReturncode ==
  thread_job.worker # "idle" =>
    /\ thread_job.worker \in {"started", "returned", "raised"} =>
         thread_job.returncode = None
    /\ thread_job.worker = "dead" =>
         IF thread_job.raises
           THEN thread_job.returncode \notin {None, PyInt(<<"0">>)}
           ELSE thread_job.returncode = PyInt(<<"0">>)

----------------------------------------------------------------------------
(* Claims about a command bound more than once *)

\* C35: parse never modifies the command's declared parameter specs: after
\* any number of parse calls the command is as it was declared, and a call
\* gives what the same call gives on the command as first declared.
C35_ParseLeavesSpecs ==
  bound.call = "parse" =>
    /\ this_command = bound.declared
    /\ \E fresh \in {Parse(bound.declared, bound.cli_args)} :
         /\ bound.error = fresh.error
         /\ bound.positional = fresh.positional
         /\ bound.optional = fresh.optional

----------------------------------------------------------------------------
(* A job whose worker and whose creator are scheduled *)

\* the worker thread runs while it can, and the creator calls communicate()
JobFairness ==
  /\ WF_vars(WorkerCall)
  /\ WF_vars(WorkerComplete)
  /\ WF_vars(WorkerFinally)
  /\ WF_vars(Communicate)

SpecJobLive == SpecJob /\ JobFairness

\* C36: communicate() on a job whose stdout is a capture pipe eventually
\* returns, for any amount of output: the worker does not stay blocked on a
\* full pipe while communicate() waits for it to finish.
C36_CommunicateReturns ==
  (thread_job.worker = "started" /\ thread_job.stdout.dest = "JobIO")
    ~> (caller.pc \in {"communicated", "read"})

----------------------------------------------------------------------------
(* Claims about what the stages of a pipeline see of each other *)

RECURSIVE WrittenTo(_, _)
\* the data of the first k writes that went to stream, in write order
WrittenTo(stream, k) ==
  IF k = 0 THEN <<>>
  ELSE WrittenTo(stream, k - 1)
       \o (IF written[k].to = stream THEN written[k].data ELSE <<>>)

\* C37: a job whose stdin is a pipe takes its input from everything that was
\* written to the pipe before its write end was closed: once the threads of
\* the line have ended, the arguments its callable got are the tokens of all
\* that was written, and nothing written is left in the pipe, however the
\* producer's writes and the consumer's read were interleaved.
C37_ConsumerReadsAllWritten ==
  AllStagesDone =>
    \A j \in 1..Len(stage) :
      stage[j].stdin.dest = "JobIO" =>
        /\ stage[j].stdin_data = Tokenize(WrittenTo(stage[j].stdin, Len(written)))
        /\ ends[stage[j].stdin.id].buffer = <<>>

\* C38: once every job of the line has finished, sys.stdin, sys.stdout and
\* sys.stderr are what they were before the line was dispatched, in every
\* interleaving of the __enter__ and __exit__ of the jobs' IOManagers, so
\* that the nodes of the next line take the original streams as defaults.
C38_AmbientStreamsRestored ==
  AllStagesDone =>
    ambient = [stdin |-> SysStdin, stdout |-> SysStdout, stderr |-> SysStderr]

\* C39: when the main loop is back at the prompt after communicate() on the
\* final job of a line, every job started for the line has ended: no earlier
\* stage is still running while the next line is read and dispatched.
C39_AllJobsEndedAtPrompt ==
  main.pc \in {"prompt", "rebound", "released"} =>
    \A j \in 1..Len(stage) : stage[j].pc = "done"

----------------------------------------------------------------------------
(* shellhost_io.py: a job created with stdin=PIPE is given input *)

\* what the creator passes to communicate(): the empty string, which like
\* None is false, one word, two words
InputData == {<<>>, <<"a">>, <<"a", " ", "b">>}

\* the JobIO that is the job's stdin: the bytes in the pipe and the two
\* descriptors, each "open", "closed" (os.close was called and the attribute
\* still holds the number) or "None"
StdinPipe == [buf |-> <<>>, w |-> "open", r |-> "open"]

InputInit ==
  /\ JobIdle
  /\ PipelineIdle
  /\ AstIdle
  /\ ShellIdle
  /\ CommandIdle

\* Job(f, stdin=subprocess.PIPE, stderr=...): self.stdin is a new JobIO and
\* the worker thread is started
CreateWithInput ==
  /\ thread_job.worker = "idle"
  /\ \E stderr \in {None, PIPE}, input_data \in InputData :
       /\ thread_job' = [worker |-> "enter", stdin |-> JobIO(1),
                         stderr |-> IF stderr = PIPE THEN JobIO(2) ELSE None,
                         stdin_data |-> <<>>, received |-> None,
                         returncode |-> None, error |-> "", uncaught |-> ""]
       /\ caller' = [pc |-> "created", input_data |-> input_data]
  /\ pipes' = <<StdinPipe>>
  /\ UNCHANGED <<astVars, shellVars, commandVars, pipelineVars>>

\* the worker enters `with self.io` and takes self.args as stdin_data
WorkerEnter ==
  /\ thread_job.worker = "enter"
  /\ thread_job' = [thread_job EXCEPT !.worker = "read"]
  /\ UNCHANGED <<pipes, caller, astVars, shellVars, commandVars, pipelineVars>>

\* stdin_data = parse_args(self.stdin.read()): os.read(self._r_fd, 4096)
\* waits on an empty pipe whose write end is open, gives what the pipe
\* holds, raises OSError on a closed descriptor, which read() turns into "",
\* and TypeError on None, which read() does not catch
WorkerRead ==
  /\ thread_job.worker = "read"
  /\ IF pipes[1].r = "None"
       THEN /\ thread_job' = [thread_job EXCEPT !.error = "TypeError", !.worker = "except"]
            /\ UNCHANGED pipes
       ELSE IF pipes[1].r = "closed"
         THEN /\ thread_job' = [thread_job EXCEPT !.stdin_data = Tokenize(<<>>),
                                                  !.worker = "call"]
              /\ UNCHANGED pipes
         ELSE /\ pipes[1].buf # <<>> \/ pipes[1].w # "open"
              /\ thread_job' = [thread_job EXCEPT !.stdin_data = Tokenize(pipes[1].buf),
                                                  !.worker = "call"]
              /\ pipes' = [pipes EXCEPT ![1].buf = <<>>]
  /\ UNCHANGED <<caller, astVars, shellVars, commandVars, pipelineVars>>

\* self._target_func(*stdin_data) and self.returncode = 0, or the except
\* clause: the message is written to self.stderr and self.returncode = 1
WorkerRun ==
  /\ thread_job.worker \in {"call", "except"}
  /\ thread_job' =
       IF thread_job.worker = "call"
         THEN [thread_job EXCEPT !.received = thread_job.stdin_data,
                                 !.returncode = PyInt(<<"0">>), !.worker = "finally"]
         ELSE IF thread_job.stderr = None
           THEN [thread_job EXCEPT !.uncaught = "AttributeError", !.worker = "finally"]
           ELSE [thread_job EXCEPT !.returncode = PyInt(<<"1">>), !.worker = "finally"]
  /\ UNCHANGED <<pipes, caller, astVars, shellVars, commandVars, pipelineVars>>

\* __exit__ and the finally clause of _run_wrapper, after which the thread
\* is dead
WorkerEnd ==
  /\ thread_job.worker = "finally"
  /\ thread_job' = [thread_job EXCEPT !.worker = "dead"]
  /\ UNCHANGED <<pipes, caller, astVars, shellVars, commandVars, pipelineVars>>

\* communicate(input_data): `if input_data and self.stdin:` then
\* self.stdin.write(input_data)
SendInput ==
  /\ caller.pc = "created"
  /\ IF caller.input_data = <<>>
       THEN /\ caller' = [caller EXCEPT !.pc = "wait"]
            /\ UNCHANGED pipes
       ELSE /\ pipes' = [pipes EXCEPT ![1].buf = @ \o caller.input_data]
            /\ caller' = [caller EXCEPT !.pc = "wrote"]
  /\ UNCHANGED <<thread_job, astVars, shellVars, commandVars, pipelineVars>>

\* self.stdin.close(): the write descriptor is closed and forgotten, then
\* os.close(self._r_fd), then self._r_fd = None
CloseInput ==
  /\ caller.pc \in {"wrote", "closed_w", "closed_r"}
  /\ IF caller.pc = "wrote"
       THEN /\ pipes' = [pipes EXCEPT ![1].w = "None"]
            /\ caller' = [caller EXCEPT !.pc = "closed_w"]
       ELSE IF caller.pc = "closed_w"
         THEN /\ pipes' = [pipes EXCEPT ![1].r = "closed"]
              /\ caller' = [caller EXCEPT !.pc = "closed_r"]
         ELSE /\ pipes' = [pipes EXCEPT ![1].r = "None"]
              /\ caller' = [caller EXCEPT !.pc = "wait"]
  /\ UNCHANGED <<thread_job, astVars, shellVars, commandVars, pipelineVars>>

\* self.wait() returns once the thread is dead, and communicate() returns
WaitReturns ==
  /\ caller.pc = "wait"
  /\ thread_job.worker = "dead"
  /\ caller' = [caller EXCEPT !.pc = "communicated"]
  /\ UNCHANGED <<thread_job, pipes, astVars, shellVars, commandVars, pipelineVars>>

InputNext ==
  \/ CreateWithInput
  \/ WorkerEnter
  \/ WorkerRead
  \/ WorkerRun
  \/ WorkerEnd
  \/ SendInput
  \/ CloseInput
  \/ WaitReturns

SpecInput == InputInit /\ [][InputNext]_vars

\* C40: input passed to communicate(input) on a job created with stdin=PIPE
\* is received by the worker before it sees the end of its input: in every
\* interleaving of the worker's read with the write and the close of
\* communicate(), the read does not fail and the callable gets the tokens of
\* the input.
C40_InputReceived ==
  (thread_job.worker \in {"call", "except", "finally", "dead"}
     /\ caller.input_data # <<>>) =>
    /\ thread_job.error = ""
    /\ thread_job.stdin_data = Tokenize(caller.input_data)

====
